---- MODULE Spec2Model ----
(***************************************************************************)
(* Model of the Elegoo Smart Car controller (elegoo_robot_car4/car.py):    *)
(* the movement-state machine with its lazy command queue, the command     *)
(* sender and the receive buffer that extracts confirmations from a noisy  *)
(* stream.                                                                 *)
(*                                                                         *)
(* Text (handles, labels, patterns, the receive buffer) is a sequence of   *)
(* one-character strings.  A command is the dict the source builds: a      *)
(* record with the keys H, N and, when present, D1 and D2.                 *)
(***************************************************************************)
EXTENDS Integers, Sequences, FiniteSets, TLC

VARIABLES state,           \* Car.state: the tracked movement label
          head_angle,      \* Car.__head_angle
          cmd_queue,       \* Car.__cmd_queue: the lazy commands
          recv_msg_queue,  \* Car.__recv_msg_queue: the decoded receive buffer
          dry_run,         \* Car.__dry_run
          net,             \* segments written by the vehicle, not yet read
          pending,         \* frames the vehicle has received and not answered
          pc,              \* "idle", or "recv" inside socket.recv
          waiting,         \* the blocked __recv_until_confirmation call
          last,            \* what the current (or last) public call did
          timeouts,        \* number of reads that have timed out
          plan,            \* noise placement of a scripted stream
          g_offsets,       \* Car.__g_offsets[-1]: the z-axis gyro bias
          turn,            \* the locals of the running turn_by call
          scan,            \* the locals of find_best_front_direction
          homing,          \* the locals of turn_to_best_direction
          construction,    \* the progress and the locals of Car.__init__
          vehicle,         \* label of the last movement frame sent, or <<>>
          threads          \* the callers inside __recv_until_confirmation

\* The variables of the composite routines
routines == <<g_offsets, turn, scan, homing, construction>>

vars == <<state, head_angle, cmd_queue, recv_msg_queue, dry_run,
          net, pending, pc, waiting, last, timeouts, plan,
          g_offsets, turn, scan, homing, construction, vehicle, threads>>

-----------------------------------------------------------------------------
(* Bounds of the model *)

MaxQueue == 2      \* lazy commands queued before a flush
MaxTimeouts == 1   \* reads that time out in one run
MaxNoise == 2      \* noise tokens in a scripted stream

Speeds == {40}
HeadAngles == {0, 200}

-----------------------------------------------------------------------------
(* Text *)

T_stop == <<"s", "t", "o", "p">>
T_fw == <<"f", "w">>
T_bw == <<"b", "w">>
T_l == <<"l">>
T_r == <<"r">>
T_fl == <<"f", "l">>
T_fr == <<"f", "r">>
T_bl == <<"b", "l">>
T_br == <<"b", "r">>
T_set_head == <<"s", "e", "t", "_", "h", "e", "a", "d">>

no_response_cmds == {T_stop, T_fw, T_bw, T_l, T_r, T_fl, T_fr, T_bl, T_br}

heartbeat_re == <<"{", "H", "e", "a", "r", "t", "b", "e", "a", "t", "}">>
ok_re == <<"{", "o", "k", "}">>

DigitChar == <<"0", "1", "2", "3", "4", "5", "6", "7", "8", "9">>

RECURSIVE NatStr(_)
NatStr(n) ==
    IF n < 10 THEN <<DigitChar[n + 1]>>
    ELSE NatStr(n \div 10) \o <<DigitChar[(n % 10) + 1]>>

\* str(n) of a Python int
Str(n) == IF n < 0 THEN <<"-">> \o NatStr(-n) ELSE NatStr(n)

\* json.dumps of a command dict: keys in insertion order, ", " and ": "
JsonDumps(cmd) ==
    <<"{">>
    \o (IF "H" \in DOMAIN cmd
        THEN <<"\"", "H", "\"", ":", " ", "\"">> \o cmd.H \o <<"\"", ",", " ">>
        ELSE <<>>)
    \o <<"\"", "N", "\"", ":", " ">> \o Str(cmd.N)
    \o (IF "D1" \in DOMAIN cmd
        THEN <<",", " ", "\"", "D", "1", "\"", ":", " ">> \o Str(cmd.D1)
        ELSE <<>>)
    \o (IF "D2" \in DOMAIN cmd
        THEN <<",", " ", "\"", "D", "2", "\"", ":", " ">> \o Str(cmd.D2)
        ELSE <<>>)
    \o <<"}">>

\* '{' + new_state + '_ok}'
ConfirmationPattern(new_state) == <<"{">> \o new_state \o <<"_", "o", "k", "}">>

-----------------------------------------------------------------------------
(* Pattern search and substitution on the buffer (literal patterns) *)

Min(S) == CHOOSE x \in S : \A y \in S : x <= y

MatchesAt(p, s, i) ==
    /\ i + Len(p) - 1 <= Len(s)
    /\ s[i] = p[1]
    /\ SubSeq(s, i, i + Len(p) - 1) = p

\* pattern.search: the start of the leftmost match, 0 when there is none
Search(p, s) ==
    LET I == {i \in 1..Len(s) : MatchesAt(p, s, i)}
    IN  IF I = {} THEN 0 ELSE Min(I)

\* Variant: only the first match is removed (sub with count=1)
Sub_first_only(p, s) ==
    LET i == Search(p, s)
    IN  IF i = 0 THEN s
        ELSE SubSeq(s, 1, i - 1) \o SubSeq(s, i + Len(p), Len(s))

\* pattern.sub('', s): every non-overlapping match removed, left to right
RECURSIVE Sub(_, _)
Sub(p, s) ==
    LET i == Search(p, s)
    IN  IF i = 0 THEN s
        ELSE SubSeq(s, 1, i - 1) \o Sub(p, SubSeq(s, i + Len(p), Len(s)))

\* Variant: the {ok} substitution is left out
StripNoise_heartbeat_only(s) == Sub(heartbeat_re, s)

\* The two substitutions of the receive loop, in the source's order
StripNoise(s) == Sub(ok_re, Sub(heartbeat_re, s))

RECURSIVE Flatten(_)
Flatten(segs) ==
    IF segs = <<>> THEN <<>> ELSE Head(segs) \o Flatten(Tail(segs))

recv_bufsize == 4096

-----------------------------------------------------------------------------
(* Commands *)

Clip(x, lo, hi) == IF x < lo THEN lo ELSE IF x > hi THEN hi ELSE x

forward_cmd(speed) == [H |-> T_fw, N |-> 102, D1 |-> 1, D2 |-> speed]
stop_cmd == [H |-> T_stop, N |-> 100]

\* Variant: the requested angle goes on the wire unclamped
set_head_cmd_unclamped(angle) ==
    [H |-> T_set_head, N |-> 5, D1 |-> 1, D2 |-> angle + 90]

set_head_cmd(angle) ==
    LET a == Clip(angle, -80, 80)
        head == a + 90
    IN  [H |-> T_set_head, N |-> 5, D1 |-> 1, D2 |-> head]

\* The label __change_state_to derives: handle, plus "_<D2>" when D2 is present
DerivedLabel(cmd) ==
    IF "D2" \in DOMAIN cmd THEN cmd.H \o <<"_">> \o Str(cmd.D2) ELSE cmd.H

NoCmd == [N |-> 0]
NoWait == [pattern |-> <<>>, cont |-> "none", cmd |-> NoCmd]

-----------------------------------------------------------------------------
(* The controller as a record, so that the steps of one call compose.      *)
(* The fields from sent on record what the call did: the frames it sent,   *)
(* whether it entered __recv_until_confirmation, called socket.recv, went  *)
(* round the receive loop again, found a match, and the buffer searched    *)
(* and the text returned by that match.                                    *)

Fresh ==
    [state |-> state, head_angle |-> head_angle, cmd_queue |-> cmd_queue,
     buf |-> recv_msg_queue, pending |-> pending, vehicle |-> vehicle,
     blocked |-> FALSE, wait |-> NoWait,
     sent |-> <<>>, awaited |-> FALSE, read |-> FALSE, looped |-> FALSE,
     hit |-> FALSE, buf0 |-> <<>>, matched |-> <<>>]

Resumed ==
    [state |-> state, head_angle |-> head_angle, cmd_queue |-> cmd_queue,
     buf |-> recv_msg_queue, pending |-> pending, vehicle |-> vehicle,
     blocked |-> FALSE, wait |-> NoWait,
     sent |-> last.sent, awaited |-> last.awaited, read |-> last.read,
     looped |-> last.looped,
     hit |-> last.hit, buf0 |-> last.buf0, matched |-> last.matched]

\* The vehicle answers the set-head (5) and clear-all-states (110) frames
NeedsReply(frame) == frame.N \in {5, 110}

\* The stop (100) and the motion (102) frames change what the vehicle does
IsMovement(frame) == frame.N \in {100, 102}

\* The label of a movement frame: a flushed frame carries it as its handle,
\* an immediate frame carries the bare handle and the speed
WireLabel(frame) ==
    IF frame.H \in no_response_cmds THEN DerivedLabel(frame) ELSE frame.H

\* Variant: the frame is sent whatever dry_run says
send_cmd_always(m, cmd_data) ==
    [m EXCEPT !.sent = Append(@, cmd_data),
              !.pending = IF NeedsReply(cmd_data)
                          THEN Append(@, cmd_data) ELSE @,
              !.vehicle = IF IsMovement(cmd_data)
                          THEN WireLabel(cmd_data) ELSE @]

send_cmd(m, cmd_data) ==
    IF dry_run THEN m
    ELSE [m EXCEPT !.sent = Append(@, cmd_data),
                   !.pending = IF NeedsReply(cmd_data)
                               THEN Append(@, cmd_data) ELSE @,
                   !.vehicle = IF IsMovement(cmd_data)
                               THEN WireLabel(cmd_data) ELSE @]

\* Variant: only the returned match is removed (sub with count=1)
Extract_first_only(m, pattern, b) ==
    LET i == Search(pattern, b)
    IN  [m EXCEPT !.buf = SubSeq(b, 1, i - 1)
                          \o SubSeq(b, i + Len(pattern), Len(b)),
                  !.hit = TRUE,
                  !.buf0 = b,
                  !.matched = SubSeq(b, i, i + Len(pattern) - 1)]

\* The match found in buffer b: the buffer loses every match of the pattern
Extract(m, pattern, b) ==
    LET i == Search(pattern, b)
    IN  [m EXCEPT !.buf = Sub(pattern, b),
                  !.hit = TRUE,
                  !.buf0 = b,
                  !.matched = SubSeq(b, i, i + Len(pattern) - 1)]

\* __recv_until_confirmation up to its first socket.recv
recv_until_confirmation(m, pattern, cont, cmd) ==
    IF dry_run THEN [m EXCEPT !.awaited = TRUE]
    ELSE IF Search(pattern, m.buf) # 0
         THEN Extract([m EXCEPT !.awaited = TRUE], pattern, m.buf)
         ELSE [m EXCEPT !.awaited = TRUE, !.read = TRUE, !.blocked = TRUE,
                        !.wait = [pattern |-> pattern, cont |-> cont,
                                  cmd |-> cmd]]

\* Variant: a lazy command is queued and sent as well
process_cmd_eager(m, cmd, lazy) ==
    LET m0 == IF lazy THEN [m EXCEPT !.cmd_queue = Append(@, cmd)] ELSE m
        m1 == send_cmd(m0, cmd)
        new_state == cmd.H
        wait_for_confirmation == new_state \notin no_response_cmds
    IN  IF wait_for_confirmation
        THEN recv_until_confirmation(
                 m1, ConfirmationPattern(new_state), "process_cmd", cmd)
        ELSE m1

\* __process_cmd
process_cmd(m, cmd, lazy) ==
    IF lazy THEN [m EXCEPT !.cmd_queue = Append(@, cmd)]
    ELSE LET m1 == send_cmd(m, cmd)
             new_state == cmd.H
             wait_for_confirmation == new_state \notin no_response_cmds
         IN  IF wait_for_confirmation
             THEN recv_until_confirmation(
                      m1, ConfirmationPattern(new_state), "process_cmd", cmd)
             ELSE m1

\* __change_state_to after the confirmation (lines 513-515)
change_state_tail(m, state_cmd) ==
    LET set_head == state_cmd.N = 5
        m1 == IF set_head
              THEN [m EXCEPT !.head_angle = state_cmd.D2 - 90] ELSE m
    IN  [m1 EXCEPT !.state = state_cmd.H]

\* Variant: no comparison with the current label (line 508 left out)
change_state_to_no_dedup(m, cmd) ==
    LET wait_for_confirmation == cmd.H \notin no_response_cmds
        new_state == DerivedLabel(cmd)
        state_cmd == [cmd EXCEPT !.H = new_state]
        m1 == send_cmd(m, state_cmd)
        m2 == IF wait_for_confirmation
              THEN recv_until_confirmation(
                       m1, ConfirmationPattern(new_state),
                       "change_state_to", state_cmd)
              ELSE m1
    IN  IF m2.blocked THEN m2 ELSE change_state_tail(m2, state_cmd)

\* Variant: the frame keeps the bare handle (line 507 left out)
change_state_to_bare_handle(m, cmd) ==
    LET wait_for_confirmation == cmd.H \notin no_response_cmds
        new_state == DerivedLabel(cmd)
        state_cmd == [cmd EXCEPT !.H = new_state]
    IN  IF new_state = m.state THEN m
        ELSE LET m1 == send_cmd(m, cmd)
                 m2 == IF wait_for_confirmation
                       THEN recv_until_confirmation(
                                m1, ConfirmationPattern(new_state),
                                "change_state_to", state_cmd)
                       ELSE m1
             IN  IF m2.blocked THEN m2 ELSE change_state_tail(m2, state_cmd)

\* Variant: the label and the head angle are assigned before the
\* confirmation is awaited (lines 513-515 moved above line 511)
change_state_to_assign_first(m, cmd) ==
    LET wait_for_confirmation == cmd.H \notin no_response_cmds
        new_state == DerivedLabel(cmd)
        state_cmd == [cmd EXCEPT !.H = new_state]
    IN  IF new_state = m.state THEN m
        ELSE LET m1 == change_state_tail(send_cmd(m, state_cmd), state_cmd)
             IN  IF wait_for_confirmation
                 THEN recv_until_confirmation(
                          m1, ConfirmationPattern(new_state),
                          "process_cmd", state_cmd)
                 ELSE m1

\* __change_state_to
change_state_to(m, cmd) ==
    LET wait_for_confirmation == cmd.H \notin no_response_cmds
        new_state == DerivedLabel(cmd)
        state_cmd == [cmd EXCEPT !.H = new_state]
    IN  IF new_state = m.state THEN m
        ELSE LET m1 == send_cmd(m, state_cmd)
                 m2 == IF wait_for_confirmation
                       THEN recv_until_confirmation(
                                m1, ConfirmationPattern(new_state),
                                "change_state_to", state_cmd)
                       ELSE m1
             IN  IF m2.blocked THEN m2 ELSE change_state_tail(m2, state_cmd)

\* Variant: the command is popped only after it has been applied
RECURSIVE move_loop_pop_after(_)
move_loop_pop_after(m) ==
    IF m.blocked \/ Len(m.cmd_queue) = 0 THEN m
    ELSE LET m1 == change_state_to(m, Head(m.cmd_queue))
         IN  IF m1.blocked THEN m1
             ELSE move_loop_pop_after([m1 EXCEPT !.cmd_queue = Tail(@)])

\* The while loop of move(): pop and apply until the queue is empty
RECURSIVE move_loop(_)
move_loop(m) ==
    IF m.blocked \/ Len(m.cmd_queue) = 0 THEN m
    ELSE LET new_state_cmd == Head(m.cmd_queue)
             m1 == [m EXCEPT !.cmd_queue = Tail(@)]
         IN  move_loop(change_state_to(m1, new_state_cmd))

\* Variant: the empty-queue stop goes through the deduplicating path
move_stop_deduped(m) ==
    LET num_cmd_received == Len(m.cmd_queue)
        m1 == IF num_cmd_received = 0 THEN change_state_to(m, stop_cmd)
              ELSE IF num_cmd_received > 1
                   THEN [m EXCEPT !.cmd_queue = <<>>]
                   ELSE m
    IN  move_loop(m1)

\* Variant: the queue is cleared only above two commands
move_clear_above_two(m) ==
    LET num_cmd_received == Len(m.cmd_queue)
        m1 == IF num_cmd_received = 0 THEN process_cmd(m, stop_cmd, FALSE)
              ELSE IF num_cmd_received > 2
                   THEN [m EXCEPT !.cmd_queue = <<>>]
                   ELSE m
    IN  move_loop(m1)

\* move()
move(m) ==
    LET num_cmd_received == Len(m.cmd_queue)
        m1 == IF num_cmd_received = 0 THEN process_cmd(m, stop_cmd, FALSE)
              ELSE IF num_cmd_received > 1
                   THEN [m EXCEPT !.cmd_queue = <<>>]
                   ELSE m
    IN  move_loop(m1)

\* The code that runs when the blocked __recv_until_confirmation returns
continue_after(m, w) ==
    IF w.cont = "change_state_to"
    THEN move_loop(change_state_tail(m, w.cmd))
    ELSE m

-----------------------------------------------------------------------------
(* Actions *)

History(m, op, cmd, lazy, n0, state0, seq, outcome) ==
    [op |-> op, cmd |-> cmd, lazy |-> lazy, n0 |-> n0, state0 |-> state0,
     seq |-> seq, outcome |-> outcome,
     sent |-> m.sent, awaited |-> m.awaited, read |-> m.read,
     looped |-> m.looped,
     hit |-> m.hit, buf0 |-> m.buf0, matched |-> m.matched]

Commit(m) ==
    /\ state' = m.state
    /\ vehicle' = m.vehicle
    /\ head_angle' = m.head_angle
    /\ cmd_queue' = m.cmd_queue
    /\ recv_msg_queue' = m.buf
    /\ pending' = m.pending
    /\ pc' = IF m.blocked THEN "recv" ELSE "idle"
    /\ waiting' = m.wait

\* No composite routine is running
NoTurn == [running |-> FALSE]
NoScan == [running |-> FALSE]
NoHoming == [running |-> FALSE]

\* No caller shares the controller with another
NoThreads == <<>>

\* The constructor has returned
Constructed == [at |-> "done"]

NoRoutine ==
    /\ g_offsets = 0
    /\ turn = NoTurn
    /\ scan = NoScan
    /\ homing = NoHoming
    /\ construction = Constructed

\* A public call: op with its command, run on the controller by f
Call(result, op, cmd, lazy) ==
    \E m \in {result} :
        /\ Len(m.cmd_queue) <= MaxQueue
        /\ Commit(m)
        /\ last' = History(m, op, cmd, lazy, Len(cmd_queue), state,
                           1 - last.seq,
                           IF m.blocked THEN "running" ELSE "ok")
        /\ UNCHANGED <<dry_run, threads, net, timeouts, plan>>
        /\ UNCHANGED routines

forward(speed, lazy) ==
    /\ pc = "idle"
    /\ Call(process_cmd(Fresh, forward_cmd(speed), lazy),
            "forward", forward_cmd(speed), lazy)

stop(lazy) ==
    /\ pc = "idle"
    /\ Call(process_cmd(Fresh, stop_cmd, lazy), "stop", stop_cmd, lazy)

set_head_angle(angle, lazy) ==
    /\ pc = "idle"
    /\ Call(process_cmd(Fresh, set_head_cmd(angle), lazy),
            "set_head_angle", set_head_cmd(angle), lazy)

Move ==
    /\ pc = "idle"
    /\ Call(move(Fresh), "move",
            IF Len(cmd_queue) = 1 THEN Head(cmd_queue) ELSE NoCmd, FALSE)

\* socket.recv returns the first j segments; one iteration of the loop
RecvChunk(j) ==
    /\ pc = "recv"
    /\ j \in 1..Len(net)
    /\ \E chunk \in {Flatten(SubSeq(net, 1, j))} :
       \E b \in {StripNoise(recv_msg_queue \o chunk)} :
       LET m == [Resumed EXCEPT !.buf = b]
       IN  /\ Len(chunk) <= recv_bufsize
           /\ net' = SubSeq(net, j + 1, Len(net))
           /\ IF Search(waiting.pattern, b) = 0
              THEN /\ recv_msg_queue' = b
                   /\ last' = [last EXCEPT !.looped = TRUE]
                   /\ UNCHANGED <<state, vehicle, head_angle, cmd_queue,
                                  pending, pc, waiting>>
              ELSE \E m1 \in {continue_after(Extract(m, waiting.pattern, b),
                                               waiting)} :
                       /\ Commit(m1)
                       /\ last' = History(m1, last.op, last.cmd, last.lazy,
                                          last.n0, last.state0, last.seq,
                                          IF m1.blocked THEN "running"
                                          ELSE "ok")
    /\ UNCHANGED <<dry_run, threads, timeouts, plan>>
    /\ UNCHANGED routines

\* socket.recv raises after 2 s without data; the exception leaves the call
RecvTimeout ==
    /\ pc = "recv"
    /\ net = <<>>
    /\ timeouts < MaxTimeouts
    /\ timeouts' = timeouts + 1
    /\ pc' = "idle"
    /\ waiting' = NoWait
    /\ last' = [last EXCEPT !.outcome = "timeout"]
    /\ UNCHANGED <<state, vehicle, head_angle, cmd_queue, recv_msg_queue,
                   dry_run, threads, net, pending, plan>>
    /\ UNCHANGED routines

\* The vehicle answers the oldest unanswered frame: "{<H>_ok}"
VehicleReply ==
    /\ pending # <<>>
    /\ net' = Append(net, ConfirmationPattern(Head(pending).H))
    /\ pending' = Tail(pending)
    /\ UNCHANGED <<state, vehicle, head_angle, cmd_queue, recv_msg_queue,
                   dry_run, threads, pc, waiting, last, timeouts, plan>>
    /\ UNCHANGED routines

Init ==
    /\ state = T_stop
    /\ head_angle = 0
    /\ cmd_queue = <<>>
    /\ recv_msg_queue = <<>>
    /\ dry_run = FALSE
    /\ vehicle = <<>>
    /\ threads = NoThreads
    /\ net = <<>>
    /\ pending = <<>>
    /\ pc = "idle"
    /\ waiting = NoWait
    /\ last = History(Fresh, "init", NoCmd, FALSE, 0, T_stop, 0, "ok")
    /\ timeouts = 0
    /\ plan = <<>>
    /\ NoRoutine

Next ==
    \/ \E speed \in Speeds, lazy \in BOOLEAN : forward(speed, lazy)
    \/ \E lazy \in BOOLEAN : stop(lazy)
    \/ \E angle \in HeadAngles, lazy \in BOOLEAN : set_head_angle(angle, lazy)
    \/ Move
    \/ \E j \in 1..Len(net) : RecvChunk(j)
    \/ RecvTimeout
    \/ VehicleReply

Spec == Init /\ [][Next]_vars

-----------------------------------------------------------------------------
(* A scripted stream: the confirmation of an immediate set_head_angle()    *)
(* with noise tokens placed before, inside and after it, delivered one     *)
(* character per segment so that socket.recv may cut it anywhere.          *)

NoiseTarget == ConfirmationPattern(T_set_head)

NoiseTokens == {heartbeat_re, ok_re}

Placements == [gap : 0..Len(NoiseTarget), tok : NoiseTokens]

\* Noise placements in stream order: at most MaxNoise tokens, by gap
Plans ==
    {p \in UNION {[1..n -> Placements] : n \in 0..MaxNoise} :
        \A k \in 1..(Len(p) - 1) : p[k].gap <= p[k + 1].gap}

\* The tokens of plan p placed at gap g, in order
RECURSIVE TokensAt(_, _)
TokensAt(p, g) ==
    IF p = <<>> THEN <<>>
    ELSE (IF Head(p).gap = g THEN Head(p).tok ELSE <<>>)
         \o TokensAt(Tail(p), g)

\* The stream from gap g on: the noise of each gap, then the next character
RECURSIVE Scripted(_, _, _)
Scripted(p, target, g) ==
    TokensAt(p, g)
    \o (IF g = Len(target) THEN <<>>
        ELSE <<target[g + 1]>> \o Scripted(p, target, g + 1))

Segments(s) == [k \in 1..Len(s) |-> <<s[k]>>]

InitNoise ==
    /\ state = T_stop
    /\ head_angle = 0
    /\ cmd_queue = <<>>
    /\ recv_msg_queue = <<>>
    /\ dry_run = FALSE
    /\ vehicle = <<>>
    /\ threads = NoThreads
    /\ pending = <<>>
    /\ timeouts = 0
    /\ NoRoutine
    /\ plan \in Plans
    /\ net = Segments(Scripted(plan, NoiseTarget, 0))
    /\ LET m == process_cmd(Fresh, set_head_cmd(0), FALSE)
       IN  /\ pc = "recv"
           /\ waiting = m.wait
           /\ last = History(m, "set_head_angle", set_head_cmd(0), FALSE,
                             0, T_stop, 1, "running")

NextNoise == \E j \in 1..Len(net) : RecvChunk(j)

SpecNoise == InitNoise /\ [][NextNoise]_vars

-----------------------------------------------------------------------------
(* A raw stream: any sequence of pieces, whole noise tokens and fragments  *)
(* of them, read by the same blocked call one character per segment.  The  *)
(* awaited confirmation never arrives, so every read ends in another       *)
(* stripping pass over the buffer.                                         *)

MaxPieces == 3     \* pieces of a raw stream

Fragments ==
    {<<"{", "H", "e", "a", "r", "t">>, <<"b", "e", "a", "t", "}">>,
     <<"{", "o">>, <<"k", "}">>, <<"x">>}

Pieces == NoiseTokens \cup Fragments

RawPlans == UNION {[1..n -> Pieces] : n \in 1..MaxPieces}

InitRaw ==
    /\ state = T_stop
    /\ head_angle = 0
    /\ cmd_queue = <<>>
    /\ recv_msg_queue = <<>>
    /\ dry_run = FALSE
    /\ vehicle = <<>>
    /\ threads = NoThreads
    /\ pending = <<>>
    /\ timeouts = 0
    /\ NoRoutine
    /\ plan \in RawPlans
    /\ net = Segments(Flatten(plan))
    /\ LET m == process_cmd(Fresh, set_head_cmd(0), FALSE)
       IN  /\ pc = "recv"
           /\ waiting = m.wait
           /\ last = History(m, "set_head_angle", set_head_cmd(0), FALSE,
                             0, T_stop, 1, "running")

NextRaw == \E j \in 1..Len(net) : RecvChunk(j)

SpecRaw == InitRaw /\ [][NextRaw]_vars

-----------------------------------------------------------------------------
(* turn_by: the rotation controller.  get_mpu_data() is one exchange with  *)
(* the vehicle: the request frame is sent and the sample (t, g) the        *)
(* vehicle measured comes back, or the read times out.  Angles are in      *)
(* degrees, times in seconds, rates in degrees per second; the cumulative  *)
(* angle is kept doubled (alpha2 = 2 * alpha) so that the trapezoid rule   *)
(* stays in the integers.                                                  *)

MaxReads == 5      \* MPU reads in one turn_by call

TurnAngles == {30, -30, 0}
StartTimes == {30}
Dts == {1, 2}
RawRates == {10, -10}
Biases == {0, 10}
RequestIds == {1}

T_MPU_Request ==
    <<"M", "P", "U", "_", "R", "e", "q", "u", "e", "s", "t", "_">>

Abs(x) == IF x < 0 THEN -x ELSE x

\* request_mpu_data: the frame of one MPU request
mpu_request_cmd(id) == [H |-> T_MPU_Request \o Str(id), N |-> 1000]

request_mpu_data(m, id) == send_cmd(m, mpu_request_cmd(id))

turn_cmd(angle) ==
    [H |-> IF angle > 0 THEN T_l ELSE T_r, N |-> 102,
     D1 |-> IF angle > 0 THEN 3 ELSE 4, D2 |-> 50]

\* Variant: the rectangle rule on the new sample
trapezoid2_rectangle(y0, y1, dx) == 2 * y1 * dx

\* Twice scipy.integrate.trapezoid([y0, y1], dx=dx)
trapezoid2(y0, y1, dx) == (y0 + y1) * dx

\* The fields of the controller written back, the position apart
Store(m) ==
    /\ state' = m.state
    /\ vehicle' = m.vehicle
    /\ head_angle' = m.head_angle
    /\ cmd_queue' = m.cmd_queue
    /\ recv_msg_queue' = m.buf
    /\ pending' = m.pending

\* turn_by up to its loop: the first sample and the turn frame
turn_by(angle) ==
    /\ pc = "idle"
    /\ \E id \in RequestIds, t \in StartTimes, g \in RawRates :
       \E m \in {process_cmd(request_mpu_data(Fresh, id), turn_cmd(angle),
                             FALSE)} :
          /\ Store(m)
          /\ pc' = "turn_by"
          /\ turn' = [running |-> TRUE, target |-> angle,
                      angle |-> Abs(angle), alpha2 |-> 0,
                      t0 |-> t, wz0 |-> g - g_offsets,
                      reads |-> 1, incs |-> <<>>,
                      samples |-> <<[t |-> t, g |-> g]>>]
          /\ last' = History(m, "turn_by", turn_cmd(angle), FALSE,
                             Len(cmd_queue), state, 1 - last.seq, "running")
    /\ UNCHANGED <<dry_run, threads, net, waiting, timeouts, plan, g_offsets,
                   construction, scan,
                   homing>>

\* Variant: the loop also runs when the angle has just been reached
turning_inclusive == pc = "turn_by" /\ Abs(turn.alpha2) <= 2 * turn.angle

\* while abs(alpha) < angle
turning == pc = "turn_by" /\ Abs(turn.alpha2) < 2 * turn.angle

\* One iteration of the loop: a sample is read and integrated
turn_by_loop ==
    /\ turning
    /\ turn.reads < MaxReads
    /\ \E id \in RequestIds, dt \in Dts, g \in RawRates :
       \E m \in {request_mpu_data(Resumed, id)} :
          LET t == turn.t0 + dt
              delta_t == t - turn.t0
              wz == g - g_offsets
              delta_angle2 == trapezoid2(turn.wz0, wz, delta_t)
          IN  /\ Store(m)
              /\ turn' = [turn EXCEPT !.alpha2 = @ + delta_angle2,
                                      !.t0 = t, !.wz0 = wz,
                                      !.reads = @ + 1,
                                      !.incs = Append(@, delta_angle2),
                                      !.samples =
                                          Append(@, [t |-> t, g |-> g])]
              /\ last' = [last EXCEPT !.sent = m.sent]
    /\ UNCHANGED <<dry_run, threads,
                   net, pc, waiting, timeouts, plan, g_offsets,
                   construction,
                   scan, homing>>

\* Variant: turn_by returns without its stop frame
turn_by_exit_without_stop ==
    /\ pc = "turn_by"
    /\ ~turning
    /\ \E m \in {Resumed} :
          /\ Store(m)
          /\ last' = History(m, last.op, last.cmd, last.lazy, last.n0,
                             last.state0, last.seq, "ok")
                     @@ [turn |-> turn]
    /\ pc' = "idle"
    /\ turn' = NoTurn
    /\ UNCHANGED <<dry_run, threads, net, waiting, timeouts, plan, g_offsets,
                   construction, scan,
                   homing>>

\* The loop exits: stop(lazy=False), and turn_by returns
turn_by_exit ==
    /\ pc = "turn_by"
    /\ ~turning
    /\ \E m \in {process_cmd(Resumed, stop_cmd, FALSE)} :
          /\ Store(m)
          /\ last' = History(m, last.op, last.cmd, last.lazy, last.n0,
                             last.state0, last.seq, "ok")
                     @@ [turn |-> turn]
    /\ pc' = "idle"
    /\ turn' = NoTurn
    /\ UNCHANGED <<dry_run, threads, net, waiting, timeouts, plan, g_offsets,
                   construction, scan,
                   homing>>

\* A sample does not arrive: the Timeout leaves turn_by
turn_by_timeout ==
    /\ turning
    /\ timeouts < MaxTimeouts
    /\ \E id \in RequestIds :
       \E m \in {request_mpu_data(Resumed, id)} :
          /\ Store(m)
          /\ last' = History(m, last.op, last.cmd, last.lazy, last.n0,
                             last.state0, last.seq, "timeout")
                     @@ [turn |-> turn]
    /\ timeouts' = timeouts + 1
    /\ pc' = "idle"
    /\ turn' = NoTurn
    /\ UNCHANGED <<dry_run, threads, net, waiting, plan, g_offsets,
                   construction, scan, homing>>

InitTurn ==
    /\ state = T_stop
    /\ head_angle = 0
    /\ cmd_queue = <<>>
    /\ recv_msg_queue = <<>>
    /\ dry_run = FALSE
    /\ vehicle = <<>>
    /\ threads = NoThreads
    /\ net = <<>>
    /\ pending = <<>>
    /\ pc = "idle"
    /\ waiting = NoWait
    /\ last = History(Fresh, "init", NoCmd, FALSE, 0, T_stop, 0, "ok")
    /\ timeouts = 0
    /\ plan = <<>>
    /\ g_offsets \in Biases
    /\ turn = NoTurn
    /\ scan = NoScan
    /\ homing = NoHoming
    /\ construction = Constructed

NextTurn ==
    \/ \E speed \in Speeds : forward(speed, TRUE)
    \/ Move
    \/ \E angle \in TurnAngles : turn_by(angle)
    \/ turn_by_loop
    \/ turn_by_exit
    \/ turn_by_timeout

SpecTurn == InitTurn /\ [][NextTurn]_vars

-----------------------------------------------------------------------------
(* find_best_front_direction: the direction scanner.  A head-set and an    *)
(* ultrasonic read are each one exchange with the vehicle: the frame is    *)
(* sent and its reply is consumed, or the read times out.  A distance is   *)
(* kept in units of 1e-4 cm, the coefficients of the calibration line      *)
(* rounded to four decimals.                                               *)

ScanRanges == {<<-100, -30>>, <<-10, 10>>, <<65, 80>>, <<0, 5>>}
SensorValues == {10, 20, 120}

T_Ultrasonic_Value_Request ==
    <<"U", "l", "t", "r", "a", "s", "o", "n", "i", "c", "_", "V", "a", "l",
      "u", "e", "_", "R", "e", "q", "u", "e", "s", "t", "_">>

ultrasonic_q == -3778
ultrasonic_m == 12603

\* The frame of get_ultrasonic_value
ultrasonic_cmd(id) ==
    [H |-> T_Ultrasonic_Value_Request \o Str(id), N |-> 21, D1 |-> 2]

real_distance(sensor_value) == ultrasonic_q + ultrasonic_m * sensor_value

\* list(range(start, end, step)) for a positive step
Range(start, end, step) ==
    LET n == IF end <= start THEN 0
             ELSE (end - start + step - 1) \div step
    IN  [i \in 1..n |-> start + step * (i - 1)]

scan_angles(scan_range) ==
    Range(Clip(scan_range[1], -80, 80), Clip(scan_range[2], -80, 80) + 10,
          10)

Max(S) == CHOOSE x \in S : \A y \in S : y <= x

RECURSIVE Sum(_)
Sum(S) ==
    IF S = {} THEN 0
    ELSE LET x == CHOOSE y \in S : TRUE IN x + Sum(S \ {x})

\* Variant: the mean is truncated
round_truncating(n, d) == n \div d

\* round(n / d) for n >= 0, d > 0: to the nearest integer, a half to even
round(n, d) ==
    LET q == n \div d
        r == n % d
    IN  IF 2 * r < d THEN q
        ELSE IF 2 * r > d THEN q + 1
        ELSE IF q % 2 = 0 THEN q ELSE q + 1

\* round(np.argwhere(distances == distances.max()).ravel().mean()),
\* an index from 0
ind_best_dir(distances) ==
    LET best == Max({distances[i] : i \in 1..Len(distances)})
        tied == {i - 1 : i \in {j \in 1..Len(distances) :
                                    distances[j] = best}}
    IN  round(Sum(tied), Cardinality(tied))

\* A frame is sent and its reply is consumed
exchange(m, cmd) ==
    [send_cmd(m, cmd) EXCEPT !.pending = m.pending, !.awaited = TRUE,
                             !.read = TRUE]

Event(kind, angle) == [kind |-> kind, angle |-> angle]

\* find_best_front_direction up to its first head-set
find_best_front_direction(scan_range) ==
    /\ pc = "idle"
    /\ pc' = "scan"
    /\ scan' = [running |-> TRUE, scan_range |-> scan_range,
                scan_angles |-> scan_angles(scan_range), i |-> 1,
                at |-> "head", distances |-> <<>>, log |-> <<>>]
    /\ last' = History(Fresh, "find_best_front_direction", NoCmd, FALSE,
                       Len(cmd_queue), state, 1 - last.seq, "running")
    /\ UNCHANGED <<state, vehicle, head_angle, cmd_queue, recv_msg_queue,
                   dry_run, threads,
                   net, pending, waiting, timeouts, plan, g_offsets,
                   construction, turn,
                   homing>>

cur_angle == scan.scan_angles[scan.i]

scanning == pc = "scan" /\ scan.i <= Len(scan.scan_angles)

\* self.set_head_angle(cur_angle), confirmed
scan_set_head ==
    /\ scanning
    /\ scan.at = "head"
    /\ \E m \in {exchange(Resumed, set_head_cmd(cur_angle))} :
          /\ Store(m)
          /\ last' = [last EXCEPT !.sent = m.sent]
    /\ scan' = [scan EXCEPT !.at = "read",
                            !.log = Append(@, Event("head", cur_angle))]
    /\ UNCHANGED <<dry_run, threads,
                   net, pc, waiting, timeouts, plan, g_offsets,
                   construction,
                   turn, homing>>

\* get_ultrasonic_value returns: the distance is recorded
scan_read ==
    /\ scanning
    /\ scan.at = "read"
    /\ \E id \in RequestIds, sensor_value \in SensorValues :
       \E m \in {exchange(Resumed, ultrasonic_cmd(id))} :
          /\ Store(m)
          /\ last' = [last EXCEPT !.sent = m.sent]
          /\ scan' = [scan EXCEPT
                          !.at = "head",
                          !.i = @ + 1,
                          !.distances =
                              Append(@, real_distance(sensor_value)),
                          !.log = Append(@, Event("read", cur_angle))]
    /\ UNCHANGED <<dry_run, threads,
                   net, pc, waiting, timeouts, plan, g_offsets,
                   construction,
                   turn, homing>>

\* Variant: the TimeoutError of a read leaves the scan
scan_read_timeout_raises ==
    /\ scanning
    /\ scan.at = "read"
    /\ timeouts < MaxTimeouts
    /\ \E id \in RequestIds :
       \E m \in {send_cmd(Resumed, ultrasonic_cmd(id))} :
          /\ Store(m)
          /\ last' = [last EXCEPT !.sent = m.sent, !.outcome = "timeout"]
    /\ timeouts' = timeouts + 1
    /\ pc' = "idle"
    /\ scan' = [scan EXCEPT !.running = FALSE,
                            !.log = Append(@, Event("timeout", cur_angle))]
    /\ UNCHANGED <<dry_run, threads, net, waiting, plan, g_offsets,
                   construction, turn, homing>>

\* get_ultrasonic_value raises TimeoutError: caught, the read is tried again
scan_read_timeout ==
    /\ scanning
    /\ scan.at = "read"
    /\ timeouts < MaxTimeouts
    /\ \E id \in RequestIds :
       \E m \in {send_cmd(Resumed, ultrasonic_cmd(id))} :
          /\ Store(m)
          /\ last' = [last EXCEPT !.sent = m.sent]
    /\ timeouts' = timeouts + 1
    /\ scan' = [scan EXCEPT !.log = Append(@, Event("timeout", cur_angle))]
    /\ UNCHANGED <<dry_run, threads, net, pc, waiting, plan, g_offsets,
                   construction, turn,
                   homing>>

\* A head-set is not confirmed: the Timeout leaves the scan
scan_set_head_timeout ==
    /\ pc = "scan"
    /\ scan.at = "head"
    /\ timeouts < MaxTimeouts
    /\ \E m \in {send_cmd(Resumed,
                          set_head_cmd(IF scanning THEN cur_angle ELSE 0))} :
          /\ Store([m EXCEPT !.pending = pending])
          /\ last' = [last EXCEPT !.sent = m.sent, !.outcome = "timeout"]
                     @@ [scan |-> scan]
    /\ timeouts' = timeouts + 1
    /\ pc' = "idle"
    /\ scan' = NoScan
    /\ UNCHANGED <<dry_run, threads, net, waiting, plan, g_offsets,
                   construction, turn, homing>>

\* The selection: the index, and the angle and the distance at that index
best_direction(angles, distances) ==
    LET ind == ind_best_dir(distances)
    IN  [ind |-> ind, angle |-> angles[ind + 1],
         distance |-> distances[ind + 1]]

\* Variant: the head stays at the last scanned angle (line 474 left out)
scan_return_without_reset ==
    /\ pc = "scan"
    /\ ~scanning
    /\ scan.at = "head"
    /\ \E m \in {Resumed} :
          /\ Store(m)
          /\ last' = [last EXCEPT !.sent = m.sent, !.outcome = "ok"]
                     @@ [scan |-> scan,
                         result |-> best_direction(scan.scan_angles,
                                                   scan.distances)]
    /\ pc' = "idle"
    /\ scan' = NoScan
    /\ UNCHANGED <<dry_run, threads, net, waiting, timeouts, plan, g_offsets,
                   construction, turn,
                   homing>>

\* After the last angle: the selection, the head back to 0, the return
scan_return ==
    /\ pc = "scan"
    /\ ~scanning
    /\ scan.at = "head"
    /\ \E m \in {exchange(Resumed, set_head_cmd(0))} :
          /\ Store(m)
          /\ last' = [last EXCEPT !.sent = m.sent, !.outcome = "ok"]
                     @@ [scan |-> scan,
                         result |-> best_direction(scan.scan_angles,
                                                   scan.distances)]
    /\ pc' = "idle"
    /\ scan' = NoScan
    /\ UNCHANGED <<dry_run, threads, net, waiting, timeouts, plan, g_offsets,
                   construction, turn,
                   homing>>

NextScan ==
    \/ \E scan_range \in ScanRanges : find_best_front_direction(scan_range)
    \/ scan_set_head
    \/ scan_read
    \/ scan_read_timeout
    \/ scan_set_head_timeout
    \/ scan_return

SpecScan == Init /\ [][NextScan]_vars

-----------------------------------------------------------------------------
(* turn_to_best_direction: the homing controller.  Its sub-operations,     *)
(* find_best_front_direction and turn_by, are taken as calls that return:  *)
(* a scan returns one of the results the scanner can produce for its       *)
(* range, a turn leaves the fields of the controller as they were and the  *)
(* vehicle stopped.                                                        *)

\* The optional argument: <<>> is None, <<a>> is the angle a
HomingArgs == {<<>>, <<0>>, <<40>>}
HomingSensorValues == {20, 120}

\* What find_best_front_direction(scan_range) can return
ScanResults(scan_range) ==
    LET a == scan_angles(scan_range)
    IN  {[angle |-> best_direction(a, d).angle,
          dist |-> best_direction(a, d).distance] :
            d \in [1..Len(a) -> {real_distance(v) : v \in HomingSensorValues}]}

FullScanResults == ScanResults(<<-80, 80>>)
NarrowScanResults == ScanResults(<<-30, 30>>)

\* turn_to_best_direction up to its outer loop; dist is <<>> while the
\* local is unbound and <<d>> once a scan has returned d
turn_to_best_direction(angle) ==
    /\ pc = "idle"
    /\ pc' = "homing"
    /\ \E r \in IF angle = <<>> THEN FullScanResults
                ELSE {[angle |-> angle[1]]} :
          homing' = [running |-> TRUE, arg |-> angle,
                     angle |-> r.angle,
                     dist |-> IF angle = <<>> THEN <<r.dist>> ELSE <<>>,
                     num_trials |-> 0, num_front_trials |-> 0,
                     at |-> "outer",
                     turn_by_calls |-> 0, rescans |-> 0, pivots |-> 0,
                     fresh |-> TRUE]
    /\ last' = History(Fresh, "turn_to_best_direction", NoCmd, FALSE,
                       Len(cmd_queue), state, 1 - last.seq, "running")
    /\ UNCHANGED <<state, vehicle, head_angle, cmd_queue, recv_msg_queue,
                   dry_run, threads,
                   net, pending, waiting, timeouts, plan, g_offsets,
                   construction, turn,
                   scan>>

\* Variant: the outer loop gives up after one trial
homing_outer_single_trial ==
    /\ pc = "homing"
    /\ homing.at = "outer"
    /\ IF Abs(homing.angle) > 10 /\ homing.num_trials < 1
       THEN /\ homing' = [homing EXCEPT !.num_front_trials = 0,
                                        !.at = "inner"]
            /\ UNCHANGED <<pc, last>>
       ELSE /\ pc' = "idle"
            /\ last' = [last EXCEPT !.outcome = "ok"] @@ [homing |-> homing]
            /\ homing' = NoHoming
    /\ UNCHANGED <<state, vehicle, head_angle, cmd_queue, recv_msg_queue,
                   dry_run, threads,
                   net, pending, waiting, timeouts, plan, g_offsets,
                   construction, turn,
                   scan>>

\* while abs(angle) > 10 and num_trials < 4; the return when it fails
homing_outer ==
    /\ pc = "homing"
    /\ homing.at = "outer"
    /\ IF Abs(homing.angle) > 10 /\ homing.num_trials < 4
       THEN /\ homing' = [homing EXCEPT !.num_front_trials = 0,
                                        !.at = "inner"]
            /\ UNCHANGED <<pc, last>>
       ELSE /\ pc' = "idle"
            /\ last' = [last EXCEPT !.outcome = "ok"] @@ [homing |-> homing]
            /\ homing' = NoHoming
    /\ UNCHANGED <<state, vehicle, head_angle, cmd_queue, recv_msg_queue,
                   dry_run, threads,
                   net, pending, waiting, timeouts, plan, g_offsets,
                   construction, turn,
                   scan>>

\* Variant: the inner loop has no trial limit
homing_inner_unlimited ==
    /\ pc = "homing"
    /\ homing.at = "inner"
    /\ IF Abs(homing.angle) > 10
       THEN \E r \in NarrowScanResults :
               homing' = [homing EXCEPT
                              !.turn_by_calls = @ + 1,
                              !.num_front_trials = @ + 1,
                              !.rescans = @ + 1,
                              !.angle = r.angle, !.dist = <<r.dist>>,
                              !.fresh = TRUE]
       ELSE homing' = [homing EXCEPT !.at = "pivot"]
    /\ vehicle' = IF homing'.turn_by_calls > homing.turn_by_calls
                  THEN T_stop ELSE vehicle
    /\ UNCHANGED <<state, head_angle, cmd_queue, recv_msg_queue,
                   dry_run, threads,
                   net, pending, pc, waiting, last, timeouts, plan,
                   g_offsets, construction, turn, scan>>

\* while abs(angle) > 10 and num_front_trials < 3: turn_by, then a rescan
homing_inner ==
    /\ pc = "homing"
    /\ homing.at = "inner"
    /\ IF Abs(homing.angle) > 10 /\ homing.num_front_trials < 3
       THEN \E r \in NarrowScanResults :
               homing' = [homing EXCEPT
                              !.turn_by_calls = @ + 1,
                              !.num_front_trials = @ + 1,
                              !.rescans = @ + 1,
                              !.angle = r.angle, !.dist = <<r.dist>>,
                              !.fresh = TRUE]
       ELSE homing' = [homing EXCEPT !.at = "pivot"]
    /\ vehicle' = IF homing'.turn_by_calls > homing.turn_by_calls
                  THEN T_stop ELSE vehicle
    /\ UNCHANGED <<state, head_angle, cmd_queue, recv_msg_queue,
                   dry_run, threads,
                   net, pending, pc, waiting, last, timeouts, plan,
                   g_offsets, construction, turn, scan>>

\* Variant: the pivot looks at the angle only
homing_pivot_angle_only ==
    /\ pc = "homing"
    /\ homing.at = "pivot"
    /\ IF Abs(homing.angle) > 10
       THEN homing' = [homing EXCEPT !.turn_by_calls = @ + 1,
                                     !.pivots = @ + 1,
                                     !.fresh = FALSE,
                                     !.num_trials = @ + 1,
                                     !.at = "outer"]
       ELSE homing' = [homing EXCEPT !.num_trials = @ + 1,
                                     !.at = "outer"]
    /\ vehicle' = IF homing'.turn_by_calls > homing.turn_by_calls
                  THEN T_stop ELSE vehicle
    /\ UNCHANGED <<state, head_angle, cmd_queue, recv_msg_queue,
                   dry_run, threads,
                   net, pending, pc, waiting, last, timeouts, plan,
                   g_offsets, construction, turn, scan>>

\* if abs(angle) > 10 or dist < 30: turn_by(90); then num_trials += 1
homing_pivot ==
    /\ pc = "homing"
    /\ homing.at = "pivot"
    /\ IF Abs(homing.angle) > 10 \/ homing.dist[1] < 30 * 10000
       THEN homing' = [homing EXCEPT !.turn_by_calls = @ + 1,
                                     !.pivots = @ + 1,
                                     !.fresh = FALSE,
                                     !.num_trials = @ + 1,
                                     !.at = "outer"]
       ELSE homing' = [homing EXCEPT !.num_trials = @ + 1,
                                     !.at = "outer"]
    /\ vehicle' = IF homing'.turn_by_calls > homing.turn_by_calls
                  THEN T_stop ELSE vehicle
    /\ UNCHANGED <<state, head_angle, cmd_queue, recv_msg_queue,
                   dry_run, threads,
                   net, pending, pc, waiting, last, timeouts, plan,
                   g_offsets, construction, turn, scan>>

NextHoming ==
    \/ \E angle \in HomingArgs : turn_to_best_direction(angle)
    \/ homing_outer
    \/ homing_inner
    \/ homing_pivot

SpecHoming == Init /\ [][NextHoming]_vars

\* The call keeps running for as long as its sub-operations return
SpecHomingFair ==
    /\ SpecHoming
    /\ WF_vars(homing_outer)
    /\ WF_vars(homing_inner)
    /\ WF_vars(homing_pivot)

-----------------------------------------------------------------------------
(* The head servo: set_head_angle and turn_head, lazy or immediate, with   *)
(* requests on both sides of the servo's range.  Every confirmation is     *)
(* awaited to its arrival.                                                 *)

HeadRequests == {200, -200, 30}
Deltas == {200, -200, 50}

\* turn_head(delta, lazy): set_head_angle(self.__head_angle + delta, lazy)
turn_head(delta, lazy) ==
    /\ pc = "idle"
    /\ Call(process_cmd(Fresh, set_head_cmd(head_angle + delta), lazy),
            "turn_head", set_head_cmd(head_angle + delta), lazy)

NextHead ==
    \/ \E angle \in HeadRequests, lazy \in BOOLEAN :
          set_head_angle(angle, lazy)
    \/ \E delta \in Deltas, lazy \in BOOLEAN : turn_head(delta, lazy)
    \/ Move
    \/ \E j \in 1..Len(net) : RecvChunk(j)
    \/ VehicleReply

SpecHead == Init /\ [][NextHead]_vars

-----------------------------------------------------------------------------
(* Car.__init__: the connection, the 30 calibration reads and the first    *)
(* head-set.  Accelerations and angular velocities are in units of a       *)
(* thirtieth of a quantum, so that the mean of 30 samples is an integer;   *)
(* the rounding of np.mean in floating point is not modelled.  The samples *)
(* the vehicle will return are fixed when the behaviour starts.            *)

num_offset_samples == 30

AccelSamples == {<<0, 0, 16>>, <<1, -2, 17>>}
GyroSamples == {<<0, 0, 0>>, <<3, -1, 10>>}

\* One decoded MPU reply
MpuSamples ==
    {[a |-> [i \in 1..3 |-> num_offset_samples * a[i]],
      g |-> [i \in 1..3 |-> num_offset_samples * g[i]]] :
        a \in AccelSamples, g \in GyroSamples}

\* The replies of one calibration: all alike, or one that differs
MpuScripts ==
    {[k \in 1..num_offset_samples |-> IF k = j THEN s2 ELSE s1] :
        s1 \in MpuSamples, s2 \in MpuSamples, j \in 1..num_offset_samples}

RECURSIVE SumSeq(_)
SumSeq(xs) == IF xs = <<>> THEN 0 ELSE Head(xs) + SumSeq(Tail(xs))

\* Variant: the mean of the first axis is used for every axis
mean_axis0_first_only(rows) ==
    [i \in 1..3 |->
        SumSeq([k \in 1..Len(rows) |-> rows[k][1]]) \div Len(rows)]

\* np.mean(rows, axis=0)
mean_axis0(rows) ==
    [i \in 1..3 |->
        SumSeq([k \in 1..Len(rows) |-> rows[k][i]]) \div Len(rows)]

\* The object before the body of __init__ has run past its field defaults
NotConstructed(script) ==
    [at |-> "new", script |-> script, log |-> <<>>,
     accelerations |-> <<>>, omegas |-> <<>>,
     a_offsets |-> <<0, 0, 0>>, g_offsets |-> <<0, 0, 0>>]

\* __init__: the fields, and unless dry_run the socket and its connection
Car_init ==
    /\ pc = "idle"
    /\ construction.at = "new"
    /\ construction' =
          IF dry_run THEN [construction EXCEPT !.at = "done"]
          ELSE [construction EXCEPT
                    !.at = "calibrating",
                    !.log = @ \o <<"socket", "settimeout", "connect">>]
    /\ last' = History(Fresh, "__init__", NoCmd, FALSE, Len(cmd_queue),
                       state, 1 - last.seq,
                       IF dry_run THEN "ok" ELSE "running")
    /\ UNCHANGED <<state, vehicle, head_angle, cmd_queue, recv_msg_queue,
                   dry_run, threads, net, pending, pc, waiting, timeouts, plan,
                   g_offsets, turn, scan, homing>>

calibrating ==
    /\ pc = "idle"
    /\ construction.at = "calibrating"
    /\ Len(construction.omegas) < num_offset_samples

\* for _ in range(30): d = self.get_mpu_data()
compute_mpu_offsets_read ==
    /\ calibrating
    /\ \E id \in RequestIds :
       \E m \in {[request_mpu_data(Resumed, id) EXCEPT !.awaited = TRUE,
                                                       !.read = TRUE]} :
          LET d == construction.script[Len(construction.omegas) + 1]
          IN  /\ Store(m)
              /\ last' = [last EXCEPT !.sent = m.sent]
              /\ construction' =
                    [construction EXCEPT
                         !.log = Append(@, "get_mpu_data"),
                         !.accelerations = Append(@, d.a),
                         !.omegas = Append(@, d.g)]
    /\ UNCHANGED <<dry_run, threads,
                   net, pc, waiting, timeouts, plan, g_offsets,
                   turn, scan, homing>>

\* A reply does not arrive: the Timeout leaves __init__
compute_mpu_offsets_timeout ==
    /\ calibrating
    /\ timeouts < MaxTimeouts
    /\ \E id \in RequestIds :
       \E m \in {[request_mpu_data(Resumed, id) EXCEPT !.awaited = TRUE,
                                                       !.read = TRUE]} :
          /\ Store(m)
          /\ last' = [last EXCEPT !.sent = m.sent, !.outcome = "timeout"]
    /\ construction' = [construction EXCEPT !.at = "failed"]
    /\ timeouts' = timeouts + 1
    /\ UNCHANGED <<dry_run, threads,
                   net, pc, waiting, plan, g_offsets, turn, scan,
                   homing>>

\* The means of the samples become the offsets
compute_mpu_offsets_mean ==
    /\ pc = "idle"
    /\ construction.at = "calibrating"
    /\ Len(construction.omegas) = num_offset_samples
    /\ \E a \in {mean_axis0(construction.accelerations)} :
       \E g \in {mean_axis0(construction.omegas)} :
          /\ construction' = [construction EXCEPT !.at = "head",
                                                  !.a_offsets = a,
                                                  !.g_offsets = g]
          /\ g_offsets' = g[3]
    /\ UNCHANGED <<state, vehicle, head_angle, cmd_queue, recv_msg_queue,
                   dry_run, threads,
                   net, pending, pc, waiting, last, timeouts, plan,
                   turn, scan, homing>>

\* Variant: the head-set of __init__ is queued instead of sent
init_set_head_angle_lazy ==
    /\ pc = "idle"
    /\ construction.at = "head"
    /\ \E m \in {process_cmd(Resumed, set_head_cmd(0), TRUE)} :
          /\ Store(m)
          /\ last' = [last EXCEPT !.sent = m.sent, !.outcome = "ok"]
    /\ construction' = [construction EXCEPT
                            !.at = "done",
                            !.log = Append(@, "set_head_angle")]
    /\ UNCHANGED <<dry_run, threads,
                   net, pc, waiting, timeouts, plan, g_offsets,
                   turn, scan, homing>>

\* self.set_head_angle(), confirmed; __init__ returns
init_set_head_angle ==
    /\ pc = "idle"
    /\ construction.at = "head"
    /\ \E m \in {exchange(Resumed, set_head_cmd(0))} :
          /\ Store(m)
          /\ last' = [last EXCEPT !.sent = m.sent, !.outcome = "ok"]
    /\ construction' = [construction EXCEPT
                            !.at = "done",
                            !.log = Append(@, "set_head_angle")]
    /\ UNCHANGED <<dry_run, threads,
                   net, pc, waiting, timeouts, plan, g_offsets,
                   turn, scan, homing>>

InitConstruct ==
    /\ state = T_stop
    /\ head_angle = 0
    /\ cmd_queue = <<>>
    /\ recv_msg_queue = <<>>
    /\ dry_run = FALSE
    /\ vehicle = <<>>
    /\ threads = NoThreads
    /\ net = <<>>
    /\ pending = <<>>
    /\ pc = "idle"
    /\ waiting = NoWait
    /\ last = History(Fresh, "new", NoCmd, FALSE, 0, T_stop, 0, "ok")
    /\ timeouts = 0
    /\ plan = <<>>
    /\ g_offsets = 0
    /\ turn = NoTurn
    /\ scan = NoScan
    /\ homing = NoHoming
    /\ construction \in {NotConstructed(script) : script \in MpuScripts}

NextConstruct ==
    \/ Car_init
    \/ compute_mpu_offsets_read
    \/ compute_mpu_offsets_timeout
    \/ compute_mpu_offsets_mean
    \/ init_set_head_angle

SpecConstruct == InitConstruct /\ [][NextConstruct]_vars

-----------------------------------------------------------------------------
(* The controller in dry-run mode: the construction and the commands that  *)
(* follow it.  No call blocks, so nothing is read and the vehicle never    *)
(* answers.                                                                *)

T_clear_all_states ==
    <<"c", "l", "e", "a", "r", "_", "a", "l", "l", "_",
      "s", "t", "a", "t", "e", "s", "_">>

clear_all_states_cmd(id) == [H |-> T_clear_all_states \o Str(id), N |-> 110]

\* clear_all_states: the frame, then the wait for {<id>_ok}
clear_all_states ==
    /\ pc = "idle"
    /\ \E id \in RequestIds :
          Call(recv_until_confirmation(
                   send_cmd(Fresh, clear_all_states_cmd(id)),
                   ConfirmationPattern(clear_all_states_cmd(id).H),
                   "clear_all_states", clear_all_states_cmd(id)),
               "clear_all_states", clear_all_states_cmd(id), FALSE)

InitDry ==
    /\ state = T_stop
    /\ head_angle = 0
    /\ cmd_queue = <<>>
    /\ recv_msg_queue = <<>>
    /\ dry_run = TRUE
    /\ vehicle = <<>>
    /\ threads = NoThreads
    /\ net = <<>>
    /\ pending = <<>>
    /\ pc = "idle"
    /\ waiting = NoWait
    /\ last = History(Fresh, "new", NoCmd, FALSE, 0, T_stop, 0, "ok")
    /\ timeouts = 0
    /\ plan = <<>>
    /\ g_offsets = 0
    /\ turn = NoTurn
    /\ scan = NoScan
    /\ homing = NoHoming
    /\ construction = NotConstructed(<<>>)

NextDry ==
    \/ Car_init
    \/ /\ construction.at = "done"
       /\ \/ \E speed \in Speeds, lazy \in BOOLEAN : forward(speed, lazy)
          \/ \E lazy \in BOOLEAN : stop(lazy)
          \/ \E angle \in HeadRequests, lazy \in BOOLEAN :
                set_head_angle(angle, lazy)
          \/ \E delta \in Deltas, lazy \in BOOLEAN : turn_head(delta, lazy)
          \/ clear_all_states
          \/ Move

SpecDry == InitDry /\ [][NextDry]_vars

-----------------------------------------------------------------------------
(* PersonFollower.follow.  A track result is <<>> (the empty list) or one  *)
(* result whose boxes are <<>> or one box, given by the x of its centre in *)
(* pixels and its normalized area in hundredths.  The horizontal threshold *)
(* 0.15 * width and the distance threshold 0.4 are compared in integers.   *)

FrameWidths == {800}
BoxCentres == {100, 280, 281, 400, 519, 520, 700}
BoxAreas == {39, 40, 41}

TrackResults ==
    {<<>>, <<[boxes |-> <<>>]>>}
    \cup {<<[boxes |-> <<[x |-> x, area |-> a]>>]>> :
              x \in BoxCentres, a \in BoxAreas}

left_cmd(speed) == [H |-> T_l, N |-> 102, D1 |-> 3, D2 |-> speed]
right_cmd(speed) == [H |-> T_r, N |-> 102, D1 |-> 4, D2 |-> speed]

\* Variant: a box exactly on the horizontal threshold counts as centred
follow_cmd_inclusive(width, result) ==
    IF Len(result.boxes) > 0
    THEN LET box == result.boxes[1]
             displacement2 == 2 * box.x - width
         IN  IF 10 * Abs(displacement2) <= 3 * width
             THEN IF box.area < 40
                  THEN [call |-> "forward", cmd |-> forward_cmd(150)]
                  ELSE [call |-> "stop", cmd |-> stop_cmd]
             ELSE IF displacement2 > 0
                  THEN [call |-> "right", cmd |-> right_cmd(50)]
                  ELSE [call |-> "left", cmd |-> left_cmd(50)]
    ELSE [call |-> "stop", cmd |-> stop_cmd]

\* The lazy command follow chooses for the first result
follow_cmd(width, result) ==
    IF Len(result.boxes) > 0
    THEN LET box == result.boxes[1]
             displacement2 == 2 * box.x - width
         IN  IF 10 * Abs(displacement2) < 3 * width
             THEN IF box.area < 40
                  THEN [call |-> "forward", cmd |-> forward_cmd(150)]
                  ELSE [call |-> "stop", cmd |-> stop_cmd]
             ELSE IF displacement2 > 0
                  THEN [call |-> "right", cmd |-> right_cmd(50)]
                  ELSE [call |-> "left", cmd |-> left_cmd(50)]
    ELSE [call |-> "stop", cmd |-> stop_cmd]

\* follow(last_track_results): nothing, or one lazy command and move()
follow(width, last_track_results) ==
    /\ pc = "idle"
    /\ IF last_track_results = <<>>
       THEN /\ last' = History(Fresh, "follow", NoCmd, FALSE,
                               Len(cmd_queue), state, 1 - last.seq, "ok")
                       @@ [results |-> last_track_results, width |-> width,
                           calls |-> <<>>]
            /\ UNCHANGED <<state, vehicle, head_angle, cmd_queue,
                           recv_msg_queue, pending, pc, waiting>>
       ELSE \E c \in {follow_cmd(width, last_track_results[1])} :
            \E m \in {move(process_cmd(Fresh, c.cmd, TRUE))} :
               /\ Commit(m)
               /\ last' = History(m, "follow", c.cmd, TRUE, Len(cmd_queue),
                                  state, 1 - last.seq, "ok")
                          @@ [results |-> last_track_results,
                              width |-> width,
                              calls |-> <<c.call, "move">>]
    /\ UNCHANGED <<dry_run, threads, net, timeouts, plan>>
    /\ UNCHANGED routines

NextFollow ==
    \/ \E width \in FrameWidths, results \in TrackResults :
          follow(width, results)
    \/ \E speed \in Speeds : forward(speed, TRUE)
    \/ stop(TRUE)
    \/ Move

SpecFollow == Init /\ [][NextFollow]_vars

-----------------------------------------------------------------------------
(* The rotation loop of turn_by on its own, for the question whether it    *)
(* ends.  Only what the loop condition depends on is kept: the cumulative  *)
(* angle, the last corrected rate, and the parity of the reads, which      *)
(* tells one read from the next; sample times enter through the interval   *)
(* since the previous sample.  Every read returns a sample.                *)

\* turn_by up to its loop
rotate_by(angle) ==
    /\ pc = "idle"
    /\ \E g \in RawRates :
          turn' = [running |-> TRUE, target |-> angle, angle |-> Abs(angle),
                   alpha2 |-> 0, wz0 |-> g - g_offsets, parity |-> 1]
    /\ pc' = "turn_by"
    /\ vehicle' = WireLabel(turn_cmd(angle))
    /\ last' = History(Fresh, "turn_by", turn_cmd(angle), FALSE,
                       Len(cmd_queue), state, 1 - last.seq, "running")
    /\ UNCHANGED <<state, head_angle, cmd_queue, recv_msg_queue, dry_run, threads,
                   net, pending, waiting, timeouts, plan, g_offsets, scan,
                   homing, construction>>

\* One iteration of the loop
rotate_by_loop ==
    /\ turning
    /\ \E delta_t \in Dts, g \in RawRates :
          LET wz == g - g_offsets
          IN  turn' = [turn EXCEPT
                           !.alpha2 = @ + trapezoid2(turn.wz0, wz, delta_t),
                           !.wz0 = wz,
                           !.parity = 1 - @]
    /\ UNCHANGED <<state, vehicle, head_angle, cmd_queue, recv_msg_queue,
                   dry_run, threads,
                   net, pending, pc, waiting, last, timeouts, plan,
                   g_offsets, scan, homing, construction>>

\* The loop exits: the stop frame, and turn_by returns
rotate_by_exit ==
    /\ pc = "turn_by"
    /\ ~turning
    /\ pc' = "idle"
    /\ vehicle' = T_stop
    /\ last' = [last EXCEPT !.outcome = "ok"] @@ [turn |-> turn]
    /\ turn' = NoTurn
    /\ UNCHANGED <<state, head_angle, cmd_queue, recv_msg_queue, dry_run, threads,
                   net, pending, waiting, timeouts, plan, g_offsets, scan,
                   homing, construction>>

NextRotation ==
    \/ \E angle \in TurnAngles : rotate_by(angle)
    \/ rotate_by_loop
    \/ rotate_by_exit

\* turn_by runs on: every read returns, and the call is never suspended
SpecRotation ==
    /\ InitTurn
    /\ [][NextRotation]_vars
    /\ WF_vars(rotate_by_loop)
    /\ WF_vars(rotate_by_exit)

-----------------------------------------------------------------------------
(* The loops of find_best_front_direction on their own, for the question   *)
(* whether the scan ends.  Only what the loops depend on is kept: the      *)
(* position in scan_angles, whether the head has been set there, and the   *)
(* parity of the timed-out reads, which tells one retry from the next.     *)
(* Every head-set is confirmed; a distance read returns or times out, any  *)
(* number of times.                                                        *)

ScanLoopRanges == {<<-80, 80>>, <<-30, 30>>, <<-100, -30>>, <<0, 5>>}

\* find_best_front_direction up to its for loop
scan_loop_begin(scan_range) ==
    /\ pc = "idle"
    /\ pc' = "scan"
    /\ scan' = [running |-> TRUE, scan_range |-> scan_range,
                scan_angles |-> scan_angles(scan_range), i |-> 1,
                at |-> "head", parity |-> 0]
    /\ last' = History(Fresh, "find_best_front_direction", NoCmd, FALSE,
                       Len(cmd_queue), state, 1 - last.seq, "running")
    /\ UNCHANGED <<state, vehicle, head_angle, cmd_queue, recv_msg_queue,
                   dry_run, threads,
                   net, pending, waiting, timeouts, plan, g_offsets,
                   construction, turn, homing>>

\* self.set_head_angle(cur_angle), confirmed
scan_loop_set_head ==
    /\ scanning
    /\ scan.at = "head"
    /\ scan' = [scan EXCEPT !.at = "read"]
    /\ UNCHANGED <<state, vehicle, head_angle, cmd_queue, recv_msg_queue,
                   dry_run, threads,
                   net, pending, pc, waiting, last, timeouts, plan,
                   g_offsets, construction, turn, homing>>

\* get_ultrasonic_value returns: try_getting_obstacle_dist = False
scan_loop_read ==
    /\ scanning
    /\ scan.at = "read"
    /\ scan' = [scan EXCEPT !.at = "head", !.i = @ + 1]
    /\ UNCHANGED <<state, vehicle, head_angle, cmd_queue, recv_msg_queue,
                   dry_run, threads,
                   net, pending, pc, waiting, last, timeouts, plan,
                   g_offsets, construction, turn, homing>>

\* Variant: the TimeoutError of a read leaves the scan
scan_loop_retry_raises ==
    /\ scanning
    /\ scan.at = "read"
    /\ pc' = "idle"
    /\ last' = [last EXCEPT !.outcome = "timeout"] @@ [scan |-> scan]
    /\ scan' = NoScan
    /\ UNCHANGED <<state, vehicle, head_angle, cmd_queue, recv_msg_queue,
                   dry_run, threads, net, pending, waiting, timeouts, plan,
                   g_offsets, construction, turn, homing>>

\* get_ultrasonic_value raises TimeoutError: pass, and the while loop again
scan_loop_retry ==
    /\ scanning
    /\ scan.at = "read"
    /\ scan' = [scan EXCEPT !.parity = 1 - @]
    /\ UNCHANGED <<state, vehicle, head_angle, cmd_queue, recv_msg_queue,
                   dry_run, threads,
                   net, pending, pc, waiting, last, timeouts, plan,
                   g_offsets, construction, turn, homing>>

\* After the last angle: the selection, the head back to 0, the return
scan_loop_return ==
    /\ pc = "scan"
    /\ ~scanning
    /\ pc' = "idle"
    /\ last' = [last EXCEPT !.outcome = "ok"] @@ [scan |-> scan]
    /\ scan' = NoScan
    /\ UNCHANGED <<state, vehicle, head_angle, cmd_queue, recv_msg_queue,
                   dry_run, threads, net, pending, waiting, timeouts, plan,
                   g_offsets, construction, turn, homing>>

NextScanLoop ==
    \/ \E scan_range \in ScanLoopRanges : scan_loop_begin(scan_range)
    \/ scan_loop_set_head
    \/ scan_loop_read
    \/ scan_loop_retry
    \/ scan_loop_return

\* The code runs on: a step that can be taken is taken.  A read that can
\* return does so in the end; nothing is assumed about the retries.
SpecScanLoop ==
    /\ Init
    /\ [][NextScanLoop]_vars
    /\ WF_vars(scan_loop_set_head)
    /\ WF_vars(scan_loop_read)
    /\ WF_vars(scan_loop_return)

\* The same, with nothing assumed about the outcome of a read: it returns
\* or it times out
SpecScanLoopAnyRead ==
    /\ Init
    /\ [][NextScanLoop]_vars
    /\ WF_vars(scan_loop_set_head)
    /\ WF_vars(scan_loop_read \/ scan_loop_retry)
    /\ WF_vars(scan_loop_return)

-----------------------------------------------------------------------------
(* Two callers on one controller.  Each runs clear_all_states under its    *)
(* own id; the steps of __recv_until_confirmation are those between which  *)
(* the interpreter can switch threads: the search, the three parts of      *)
(* "self.__recv_msg_queue += self.socket.recv(4096).decode()" (the load of *)
(* the attribute, the blocking read, the store of the sum), the two        *)
(* stripping assignments taken as one step, and the final substitution.    *)
(* With the mutex a call starts only when no other call is running.        *)

Callers == {1, 2}
MaxCalls == 1      \* blocking calls made by one caller

NotCalling ==
    [at |-> "idle", pattern |-> <<>>, tmp |-> <<>>, chunk |-> <<>>,
     calls |-> 0]

thread(c) == threads.of[c]

Step(c, t) ==
    /\ threads' = [threads EXCEPT !.of[c] = t]
    /\ UNCHANGED <<state, head_angle, cmd_queue, dry_run, pc, waiting, last,
                   timeouts, plan, vehicle>>
    /\ UNCHANGED routines

\* Variant: the call starts whatever the other caller is doing
shared_call_unlocked(c) ==
    /\ thread(c).at = "idle"
    /\ thread(c).calls < MaxCalls
    /\ \E cmd \in {clear_all_states_cmd(c)} :
       \E pattern \in {ConfirmationPattern(cmd.H)} :
          /\ pending' = send_cmd(Fresh, cmd).pending
          /\ Step(c, [thread(c) EXCEPT
                          !.at = IF Search(pattern, recv_msg_queue) # 0
                                 THEN "sub" ELSE "load",
                          !.pattern = pattern,
                          !.calls = @ + 1])
    /\ UNCHANGED <<recv_msg_queue, net>>

\* clear_all_states up to the first search of the buffer (line 527)
shared_call(c) ==
    /\ thread(c).at = "idle"
    /\ thread(c).calls < MaxCalls
    /\ threads.mutex => \A d \in Callers : thread(d).at = "idle"
    /\ \E cmd \in {clear_all_states_cmd(c)} :
       \E pattern \in {ConfirmationPattern(cmd.H)} :
          /\ pending' = send_cmd(Fresh, cmd).pending
          /\ Step(c, [thread(c) EXCEPT
                          !.at = IF Search(pattern, recv_msg_queue) # 0
                                 THEN "sub" ELSE "load",
                          !.pattern = pattern,
                          !.calls = @ + 1])
    /\ UNCHANGED <<recv_msg_queue, net>>

\* Line 530, the left operand: the buffer is loaded
shared_load(c) ==
    /\ thread(c).at = "load"
    /\ Step(c, [thread(c) EXCEPT !.at = "recv", !.tmp = recv_msg_queue])
    /\ UNCHANGED <<recv_msg_queue, net, pending>>

\* Line 530, the right operand: socket.recv returns the first j segments
shared_recv(c, j) ==
    /\ thread(c).at = "recv"
    /\ j \in 1..Len(net)
    /\ net' = SubSeq(net, j + 1, Len(net))
    /\ Step(c, [thread(c) EXCEPT !.at = "store",
                                 !.chunk = Flatten(SubSeq(net, 1, j))])
    /\ UNCHANGED <<recv_msg_queue, pending>>

\* Line 530, the assignment: the sum of what was loaded and what was read
shared_store(c) ==
    /\ thread(c).at = "store"
    /\ recv_msg_queue' = thread(c).tmp \o thread(c).chunk
    /\ Step(c, [thread(c) EXCEPT !.at = "strip", !.tmp = <<>>,
                                 !.chunk = <<>>])
    /\ UNCHANGED <<net, pending>>

\* Lines 532 and 534: the noise is stripped
shared_strip(c) ==
    /\ thread(c).at = "strip"
    /\ recv_msg_queue' = StripNoise(recv_msg_queue)
    /\ Step(c, [thread(c) EXCEPT !.at = "search"])
    /\ UNCHANGED <<net, pending>>

\* Line 535 and the loop test
shared_search(c) ==
    /\ thread(c).at = "search"
    /\ Step(c, [thread(c) EXCEPT
                    !.at = IF Search(thread(c).pattern, recv_msg_queue) # 0
                           THEN "sub" ELSE "load"])
    /\ UNCHANGED <<recv_msg_queue, net, pending>>

\* Lines 538 and 539: the matches are removed and the call returns
shared_return(c) ==
    /\ thread(c).at = "sub"
    /\ recv_msg_queue' = Sub(thread(c).pattern, recv_msg_queue)
    /\ Step(c, [thread(c) EXCEPT !.at = "idle", !.pattern = <<>>])
    /\ UNCHANGED <<net, pending>>

InitShared ==
    /\ state = T_stop
    /\ head_angle = 0
    /\ cmd_queue = <<>>
    /\ recv_msg_queue = <<>>
    /\ dry_run = FALSE
    /\ vehicle = <<>>
    /\ threads \in {[mutex |-> b, of |-> [c \in Callers |-> NotCalling]] :
                       b \in BOOLEAN}
    /\ net = <<>>
    /\ pending = <<>>
    /\ pc = "idle"
    /\ waiting = NoWait
    /\ last = History(Fresh, "init", NoCmd, FALSE, 0, T_stop, 0, "ok")
    /\ timeouts = 0
    /\ plan = <<>>
    /\ NoRoutine

NextShared ==
    \/ \E c \in Callers : shared_call(c)
    \/ \E c \in Callers : shared_load(c)
    \/ \E c \in Callers, j \in 1..Len(net) : shared_recv(c, j)
    \/ \E c \in Callers : shared_store(c)
    \/ \E c \in Callers : shared_strip(c)
    \/ \E c \in Callers : shared_search(c)
    \/ \E c \in Callers : shared_return(c)
    \/ VehicleReply

SpecShared == InitShared /\ [][NextShared]_vars

-----------------------------------------------------------------------------
(* Properties *)

\* The last public call is move(), entered with n queued commands
Flushed(n) == last.op = "move" /\ last.n0 = n

\* The label derived from the single command a move() call found queued
FlushedLabel == DerivedLabel(last.cmd)

MovementOps == {"forward", "stop"}

\* C1: the same movement command issued twice in a row in immediate mode,
\* from a different label, sends exactly one frame in all, and that frame's
\* handle is the canonical label (forward(40) twice: one frame, "fw_40").
C1_ImmediateRepeatSendsOneFrame ==
    [][(/\ last'.seq # last.seq
        /\ last.op \in MovementOps /\ last'.op = last.op
        /\ ~last.lazy /\ ~last'.lazy
        /\ last'.cmd = last.cmd
        /\ last.state0 # DerivedLabel(last.cmd))
       => /\ Len(last.sent) + Len(last'.sent) = 1
          /\ (last.sent \o last'.sent)[1].H = DerivedLabel(last.cmd)]_vars

\* C2: a move() that flushes one queued command whose derived label equals
\* the current label sends no frame, awaits no confirmation, reads nothing and
\* leaves the label unchanged; and a flush of one command that returns leaves
\* the label equal to the derived label, so that flushing the same command
\* again is such a no-op.
C2_FlushOfCurrentLabelIsNoOp ==
    Flushed(1) =>
        /\ FlushedLabel = last.state0 =>
              /\ last.sent = <<>>
              /\ ~last.awaited /\ ~last.read
              /\ last.outcome = "ok"
              /\ state = last.state0
        /\ last.outcome = "ok" => state = FlushedLabel

C2_Witness ==
    /\ Flushed(1)
    /\ FlushedLabel = last.state0
    /\ last.state0 = <<"f", "w", "_", "4", "0">>
    /\ last.sent = <<>>

\* C3: a move() that flushes one queued command whose derived label differs
\* from the current label sends exactly one frame, whose handle is the derived
\* label, and once it has returned the label is the derived label.
C3_FlushOfNewLabelSendsIt ==
    (Flushed(1) /\ FlushedLabel # last.state0) =>
        /\ Len(last.sent) = 1
        /\ last.sent[1].H = FlushedLabel
        /\ last.outcome = "ok" => state = FlushedLabel

C3_Witness ==
    /\ Flushed(1)
    /\ FlushedLabel # last.state0
    /\ last.outcome = "ok"
    /\ last.read
    /\ state = <<"s", "e", "t", "_", "h", "e", "a", "d", "_", "1", "7", "0">>

StopFrameBytes ==
    <<"{", "\"", "H", "\"", ":", " ", "\"", "s", "t", "o", "p", "\"", ",", " ",
      "\"", "N", "\"", ":", " ", "1", "0", "0", "}">>

\* C4: a move() entered with an empty queue sends the stop frame
\* {"H": "stop", "N": 100}, whatever the label, "stop" included.
C4_EmptyFlushSendsStop ==
    Flushed(0) =>
        /\ Len(last.sent) = 1
        /\ JsonDumps(last.sent[1]) = StopFrameBytes

C4_Witness ==
    /\ Flushed(0)
    /\ last.state0 = T_stop
    /\ Len(last.sent) = 1
    /\ last.sent[1] = stop_cmd

\* C5: after a move() entered with an empty queue the label is "stop",
\* whatever it was before.
C5_EmptyFlushSetsStop ==
    (Flushed(0) /\ last.outcome = "ok") => state = T_stop

\* C6: a move() entered with two or more queued commands sends no frame.
C6_AmbiguousFlushSendsNothing ==
    (last.op = "move" /\ last.n0 >= 2) => last.sent = <<>>

C6_Witness ==
    /\ last.op = "move"
    /\ last.n0 >= 2
    /\ last.outcome = "ok"
    /\ last.state0 # T_stop
    /\ cmd_queue = <<>>

\* C7: after a move() entered with two or more queued commands the label is
\* "stop", whatever it was before.
C7_AmbiguousFlushSetsStop ==
    (last.op = "move" /\ last.n0 >= 2 /\ last.outcome = "ok")
        => state = T_stop

\* C8: after every move(), returned or raised, the lazy queue is empty.
C8_FlushDrainsQueue ==
    (last.op = "move" /\ last.outcome \in {"ok", "timeout"})
        => cmd_queue = <<>>

C8_Witness ==
    /\ Flushed(1)
    /\ last.outcome = "timeout"
    /\ Len(last.sent) = 1
    /\ cmd_queue = <<>>

\* The starts of the occurrences of p in s, and the positions they cover
Occurrences(p, s) == {i \in 1..Len(s) : MatchesAt(p, s, i)}

Covered(p, s) ==
    {k \in 1..Len(s) : \E i \in Occurrences(p, s) : i <= k /\ k < i + Len(p)}

\* The characters of s at the positions of K, in order
RECURSIVE Keep(_, _, _)
Keep(s, K, k) ==
    IF k > Len(s) THEN <<>>
    ELSE (IF k \in K THEN <<s[k]>> ELSE <<>>) \o Keep(s, K, k + 1)

C10_NoiseAndCutsDoNotChangeTheMatch ==
    /\ pc = "idle" =>
          /\ last.hit
          /\ last.outcome = "ok"
          /\ last.matched = NoiseTarget
    /\ net = <<>> => pc = "idle"

C10_Witness ==
    /\ pc = "idle"
    /\ last.matched = NoiseTarget
    /\ last.looped
    /\ \E k \in 1..Len(plan) :
          plan[k].gap > 0 /\ plan[k].gap < Len(NoiseTarget)
    /\ \E k \in 1..Len(plan) : plan[k].gap = Len(NoiseTarget)
    /\ recv_msg_queue # <<>>
    /\ net # <<>>

\* The text a raw stream carries besides its whole noise tokens
RECURSIVE BaseText(_)
BaseText(p) ==
    IF p = <<>> THEN <<>>
    ELSE (IF Head(p) \in NoiseTokens THEN <<>> ELSE Head(p))
         \o BaseText(Tail(p))

NoiseFree(s) ==
    Occurrences(heartbeat_re, s) = {} /\ Occurrences(ok_re, s) = {}

\* The buffer has been through a stripping pass and the call still waits
Stripped == pc = "recv" /\ last.looped

\* C11 as stated: after one stripping pass the buffer holds no occurrence of
\* either noise token and a second pass changes nothing, whatever the buffer
\* content was.
C11_OnePassLeavesNoNoise ==
    Stripped =>
        /\ NoiseFree(recv_msg_queue)
        /\ StripNoise(recv_msg_queue) = recv_msg_queue

\* C11, amended: when the stream is a text free of noise tokens with whole
\* noise tokens inserted into it, one stripping pass leaves no occurrence of
\* either noise token in the buffer and a second pass changes nothing.
C11_OnePassCleansWholeTokens ==
    (Stripped /\ NoiseFree(BaseText(plan))) =>
        /\ NoiseFree(recv_msg_queue)
        /\ StripNoise(recv_msg_queue) = recv_msg_queue

C11_Witness ==
    /\ Stripped
    /\ plan = <<heartbeat_re, <<"{", "o">>, ok_re>>
    /\ net = <<>>
    /\ recv_msg_queue = <<"{", "o">>

\* The last public call is a turn_by that has returned
Turned == last.op = "turn_by" /\ last.outcome = "ok"

\* C12: after turn_by(angle) has returned the movement label is "stop",
\* whatever the label was before the call.
C12_TurnByEndsInStop == Turned => state = T_stop

\* Twice the trapezoid integral of the bias-corrected rate over the first j
\* intervals of the samples s
RECURSIVE Integral2(_, _, _)
Integral2(s, bias, j) ==
    IF j = 0 THEN 0
    ELSE Integral2(s, bias, j - 1)
         + ((s[j].g - bias) + (s[j + 1].g - bias)) * (s[j + 1].t - s[j].t)

\* After j post-initial samples the integrated angle has reached the target
Reached(s, bias, target, j) ==
    Abs(Integral2(s, bias, j)) >= 2 * Abs(target)

MpuRequests(frames) == {i \in 1..Len(frames) : frames[i].N = 1000}

\* C13: a turn_by that returns has issued exactly 1 + k MPU reads, k being
\* the least number of post-initial samples after which the absolute
\* trapezoid integral of the bias-corrected z rate is at least |angle|; with
\* no bias and 10 deg/s sampled every second, turn_by(30) issues 4 reads.
C13_ReadsUntilAngleReached ==
    Turned =>
        LET s == last.turn.samples
            k == Len(s) - 1
        IN  /\ last.turn.reads = 1 + k
            /\ Cardinality(MpuRequests(last.sent)) = 1 + k
            /\ Reached(s, g_offsets, last.turn.target, k)
            /\ \A j \in 0..(k - 1) :
                  ~Reached(s, g_offsets, last.turn.target, j)
            /\ (/\ g_offsets = 0
                /\ last.turn.target = 30
                /\ \A i \in 1..Len(s) : s[i].g = 10
                /\ \A i \in 1..k : s[i + 1].t - s[i].t = 1)
               => last.turn.reads = 4

C13_Witness ==
    /\ Turned
    /\ g_offsets = 0
    /\ last.turn.target = 30
    /\ \A i \in 1..Len(last.turn.samples) : last.turn.samples[i].g = 10
    /\ \A i \in 1..(Len(last.turn.samples) - 1) :
          last.turn.samples[i + 1].t - last.turn.samples[i].t = 1
    /\ last.turn.reads = 4

\* The last public call is a find_best_front_direction that has returned
Scanned == last.op = "find_best_front_direction" /\ last.outcome = "ok"

Values(s) == {s[i] : i \in 1..Len(s)}

\* C14: the scan returns the maximum recorded distance and an angle at which
\* that maximum was measured, whatever the recorded distances.
C14_ReturnsTheMaximum ==
    Scanned =>
        LET d == last.scan.distances
            a == last.scan.scan_angles
        IN  /\ last.result.distance = Max(Values(d))
            /\ \E i \in 1..Len(d) :
                  a[i] = last.result.angle /\ d[i] = Max(Values(d))

\* The angles of the scan in progress, or of the scan that has returned
ScanAngles ==
    IF scan.running THEN scan.scan_angles
    ELSE IF Scanned THEN last.scan.scan_angles ELSE <<>>

ScanRange ==
    IF scan.running THEN scan.scan_range
    ELSE IF Scanned THEN last.scan.scan_range ELSE <<0, 0>>

\* C15: for a range (lo, hi) with lo <= hi the angles visited start at
\* clamp(lo), advance by 10 and never exceed clamp(hi), so every visited
\* angle and the returned angle lie in [-80, 80].
C15_AnglesWithinClampedRange ==
    LET a == ScanAngles
    IN  /\ a # <<>> => a[1] = Clip(ScanRange[1], -80, 80)
        /\ \A i \in 1..(Len(a) - 1) : a[i + 1] = a[i] + 10
        /\ \A i \in 1..Len(a) :
              a[i] <= Clip(ScanRange[2], -80, 80) /\ a[i] \in -80..80
        /\ Scanned => last.result.angle \in -80..80

\* The indices, from 0, of the positions tied for the maximum distance
Tied(d) == {i - 1 : i \in {j \in 1..Len(d) : d[j] = Max(Values(d))}}

\* C16: the selected index is an integer nearest to the mean of the indices
\* tied for the maximum (|selected - mean| <= 1/2); when two adjacent
\* positions tie it is one of the two.
C16_SelectedIndexNearestToMean ==
    Scanned =>
        LET T == Tied(last.scan.distances)
            n == Cardinality(T)
            ind == last.result.ind
        IN  /\ 2 * Abs(n * ind - Sum(T)) <= n
            /\ (n = 2 /\ \E i \in T : T = {i, i + 1}) => ind \in T

C16_Witness ==
    /\ Scanned
    /\ Tied(last.scan.distances) = {2, 3}
    /\ last.result.ind \in {2, 3}

\* What the scan in progress, or the scan that has ended, did in order
ScanLog ==
    IF "log" \in DOMAIN scan THEN scan.log
    ELSE IF "scan" \in DOMAIN last THEN last.scan.log ELSE <<>>

IsRead(e) == e.kind = "read"

\* C17: a Timeout of an ultrasonic read never leaves the scan: the read is
\* issued again at the same angle, with no head-set in between, and when
\* the scan returns exactly one distance has been recorded per visited
\* angle, in the order of the angles.
C17_ReadTimeoutIsRetried ==
    LET log == ScanLog
    IN  /\ \A j \in 1..(Len(log) - 1) :
              log[j].kind = "timeout" =>
                  /\ log[j + 1].kind \in {"read", "timeout"}
                  /\ log[j + 1].angle = log[j].angle
        /\ (log # <<>> /\ log[Len(log)].kind = "timeout") =>
              /\ pc = "scan"
              /\ scan.at = "read"
              /\ last.outcome = "running"
        /\ Scanned =>
              /\ Len(last.scan.distances) = Len(last.scan.scan_angles)
              /\ [j \in 1..Len(SelectSeq(log, IsRead)) |->
                     SelectSeq(log, IsRead)[j].angle]
                 = last.scan.scan_angles

C17_Witness ==
    /\ Scanned
    /\ \E j \in 1..Len(ScanLog) : ScanLog[j].kind = "timeout"
    /\ Len(last.scan.distances) = 6


\* The homing call in progress, or the one that returned last
Homed == pc = "idle" /\ last.op = "turn_to_best_direction"

InHoming == pc = "homing" \/ Homed

Homing == IF pc = "homing" THEN homing ELSE last.homing

HomingWithinLimits ==
    InHoming =>
        /\ Homing.num_trials <= 4
        /\ Homing.num_front_trials <= 3
        /\ Homing.pivots <= Homing.num_trials
        /\ Homing.rescans <= 3 * 4
        /\ Homing.rescans <=
              3 * Homing.num_trials + Homing.num_front_trials
        /\ Homing.turn_by_calls = Homing.rescans + Homing.pivots
        /\ Homing.turn_by_calls <= 16

\* C18: turn_to_best_direction returns whenever its sub-operations do, and
\* until then it has run at most 4 outer trials, each of at most 3
\* rotate-then-rescan inner trials and at most one 90-degree pivot: at most
\* 12 narrowed rescans and at most 16 turn_by calls.
C18_HomingTerminatesWithinLimits ==
    /\ []HomingWithinLimits
    /\ (pc = "homing") ~> Homed

\* A call that returned after 12 rescans and 16 turns
C18_Witness ==
    /\ Homed
    /\ last.homing.num_trials = 4
    /\ last.homing.rescans = 12
    /\ last.homing.turn_by_calls = 16

\* C19: when turn_to_best_direction returns, the last measured angle is
\* within 10 degrees of the front or all 4 outer trials were used.
C19_ReturnsConvergedOrExhausted ==
    Homed => \/ Abs(last.homing.angle) <= 10
             \/ last.homing.num_trials = 4

\* A call that returned without converging
C19_Witness ==
    /\ Homed
    /\ Abs(last.homing.angle) > 10
    /\ last.homing.num_trials = 4


\* The wire angle of a requested head angle
Wire(a) == (IF a > 80 THEN 80 ELSE IF a < -80 THEN -80 ELSE a) + 90

HeadFrame(a) == [H |-> T_set_head, N |-> 5, D1 |-> 1, D2 |-> Wire(a)]

\* The request a has put its frame on the wire or in the queue
Carries(a, lazy) ==
    /\ Wire(a) \in 10..170
    /\ a = 200 => Wire(a) = 170
    /\ a = -200 => Wire(a) = 10
    /\ IF lazy
       THEN /\ cmd_queue' = Append(cmd_queue, HeadFrame(a))
            /\ last'.sent = <<>>
       ELSE /\ last'.sent = <<HeadFrame(a)>>
            /\ cmd_queue' = cmd_queue

\* C20: for every requested head angle a, the set-head frame carries
\* D2 = clamp(a, -80, 80) + 90, a value in [10, 170] (170 for a = 200, 10
\* for a = -200), for set_head_angle and for turn_head(delta) from any
\* tracked angle, lazy or immediate; a flush sends the queued value.
C20_HeadFrameCarriesClampedAngle ==
    [][/\ \A a \in HeadRequests, lazy \in BOOLEAN :
             (pc = "idle" /\ last'.op = "set_head_angle"
                 /\ set_head_angle(a, lazy))
                 => Carries(a, lazy)
       /\ \A delta \in Deltas, lazy \in BOOLEAN :
             (pc = "idle" /\ last'.op = "turn_head" /\ turn_head(delta, lazy))
                 => Carries(head_angle + delta, lazy)
       /\ (pc = "idle" /\ last'.op = "move" /\ Move) =>
             \A i \in 1..Len(last'.sent) :
                 last'.sent[i].N = 5 =>
                     /\ last'.sent[i].D2 = Head(cmd_queue).D2
                     /\ last'.sent[i].D2 \in 10..170]_vars

\* turn_head(-200) from the tracked angle 80 has sent the wire angle 10
C20_Witness ==
    /\ last.op = "turn_head"
    /\ ~last.lazy
    /\ head_angle = 80
    /\ last.sent # <<>>
    /\ last.sent[1].D2 = 10


\* A head-set frame was sent by the last call and its confirmation consumed
HeadSetConfirmed ==
    /\ pc = "idle"
    /\ last.op \in {"set_head_angle", "turn_head", "move"}
    /\ last.outcome = "ok"
    /\ Len(last.sent) = 1
    /\ last.sent[1].N = 5
    /\ last.hit

\* A queued head-set flushed by move() is tracked
FlushedHeadSetIsTracked ==
    (HeadSetConfirmed /\ last.op = "move")
        => head_angle = last.sent[1].D2 - 90

\* C21: once a head-set for angle a has been sent and confirmed, the tracked
\* head angle equals clamp(a, -80, 80), for an immediate set_head_angle(a)
\* and for a lazy one flushed by move().
C21_TrackedAngleFollowsHeadSet ==
    HeadSetConfirmed => head_angle = last.sent[1].D2 - 90


\* __init__ has returned on a connected controller
Built == construction.at = "done" /\ ~dry_run

\* What a complete construction does, in order
ExpectedLog ==
    <<"socket", "settimeout", "connect">>
    \o [k \in 1..30 |-> "get_mpu_data"]
    \o <<"set_head_angle">>

IsPrefix(s, t) == Len(s) <= Len(t) /\ s = SubSeq(t, 1, Len(s))

\* C22: constructing a connected controller connects, then makes exactly 30
\* MPU exchanges, then sends exactly one head-set for angle 0; afterwards
\* the label is "stop" and the lazy queue is empty.
C22_ConstructionSequence ==
    /\ ~dry_run => IsPrefix(construction.log, ExpectedLog)
    /\ Built =>
          /\ construction.log = ExpectedLog
          /\ Len(last.sent) = 31
          /\ \A k \in 1..30 : last.sent[k].N = 1000
          /\ last.sent[31] = [H |-> T_set_head, N |-> 5, D1 |-> 1, D2 |-> 90]
          /\ Len(construction.omegas) = 30
          /\ state = T_stop
          /\ cmd_queue = <<>>

\* A construction that has returned
C22_Witness ==
    /\ Built
    /\ last.op = "__init__"
    /\ Len(last.sent) = 31

\* The samples of a finished calibration, as the vehicle scripted them
Calibrated == construction.at \in {"head", "done"} /\ ~dry_run

AxisSum(field, i) ==
    SumSeq([k \in 1..30 |->
               IF field = "a" THEN construction.script[k].a[i]
               ELSE construction.script[k].g[i]])

\* C24: the calibration offsets are the per-axis arithmetic means of the 30
\* startup samples, accelerations and angular velocities averaged
\* independently; 30 samples equal to a bias b give the offsets b.
C24_OffsetsAreAxisMeans ==
    Calibrated =>
        /\ \A i \in 1..3 :
              /\ 30 * construction.a_offsets[i] = AxisSum("a", i)
              /\ 30 * construction.g_offsets[i] = AxisSum("g", i)
        /\ g_offsets = construction.g_offsets[3]
        /\ \A b \in MpuSamples :
              (\A k \in 1..30 : construction.script[k] = b) =>
                  /\ construction.a_offsets = b.a
                  /\ construction.g_offsets = b.g

\* A calibration with one deviating sample and different offsets per axis
C24_Witness ==
    /\ Calibrated
    /\ construction.script[7] # construction.script[1]
    /\ construction.a_offsets[1] # construction.a_offsets[3]
    /\ construction.a_offsets # construction.g_offsets
    /\ construction.g_offsets[3] # 0


\* C23: in dry-run mode nothing touches the transport: the construction
\* creates no socket, reads no calibration sample and sets no head angle, and
\* whatever commands follow, nothing is connected, sent or read.
C23_DryRunNeverTouchesTransport ==
    dry_run =>
        /\ construction.log = <<>>
        /\ construction.omegas = <<>>
        /\ last.sent = <<>>
        /\ ~last.read
        /\ pc = "idle"
        /\ pending = <<>>
        /\ net = <<>>
        /\ recv_msg_queue = <<>>

\* Dry-run commands that would have sent a frame and awaited its reply
C23_Witness ==
    /\ dry_run
    /\ construction.at = "done"
    /\ last.op = "clear_all_states"
    /\ last.awaited
    /\ state = <<"s", "e", "t", "_", "h", "e", "a", "d", "_", "1", "7", "0">>


Followed == last.op = "follow"

\* The box of the first result is horizontally centred in the frame
Centred(box, width) == 20 * Abs(2 * box.x - width) < 6 * width

\* The decision table of follow for a non-empty result list
ExpectedCall(results, width) ==
    LET boxes == results[1].boxes
    IN  IF boxes = <<>> THEN "stop"
        ELSE IF Centred(boxes[1], width)
             THEN IF boxes[1].area < 40 THEN "forward" ELSE "stop"
             ELSE IF 2 * boxes[1].x > width THEN "right" ELSE "left"

\* C25: follow with an empty result list issues no command and no flush;
\* with a non-empty list it makes exactly one lazy call (stop without boxes;
\* centred: forward when the normalized area is below 0.4, else stop;
\* otherwise right when the box is right of the centre, else left) and then
\* calls move() exactly once.
C25_FollowDecision ==
    Followed =>
        IF last.results = <<>>
        THEN /\ last.calls = <<>>
             /\ last.sent = <<>>
             /\ Len(cmd_queue) = last.n0
             /\ state = last.state0
        ELSE /\ last.calls = <<ExpectedCall(last.results, last.width), "move">>
             /\ last.lazy
             /\ last.cmd.H =
                   CASE last.calls[1] = "stop" -> T_stop
                     [] last.calls[1] = "forward" -> T_fw
                     [] last.calls[1] = "right" -> T_r
                     [] last.calls[1] = "left" -> T_l
             /\ cmd_queue = <<>>

\* A box exactly on the threshold, right of the centre: right, then move
C25_Witness ==
    /\ Followed
    /\ last.results = <<[boxes |-> <<[x |-> 520, area |-> 39]>>]>>
    /\ last.calls = <<"right", "move">>
    /\ last.sent # <<>>


\* move() found one queued movement command and dedup suppressed it
Suppressed ==
    /\ pc = "idle"
    /\ Flushed(1)
    /\ IsMovement(last.cmd)
    /\ FlushedLabel = last.state0
    /\ last.sent = <<>>

\* A suppressed command repeats the last movement frame sent, if any
SuppressedAgreesWithWire == Suppressed => vehicle \in {<<>>, FlushedLabel}

\* The tracked label is that of a head-set, not of a movement
HeadLabel(label) ==
    /\ Len(label) >= Len(T_set_head)
    /\ SubSeq(label, 1, Len(T_set_head)) = T_set_head

\* C26: over any sequence of public operations, when dedup suppresses a
\* flushed movement command, the last movement frame sent on the wire
\* carried that same canonical label: between calls the tracked movement
\* label never disagrees with the last movement frame the vehicle received.
C26_LabelAgreesWithWire ==
    /\ SuppressedAgreesWithWire
    /\ (pc = "idle" /\ vehicle # <<>> /\ ~HeadLabel(state))
          => state = vehicle


StopFrames(frames) == {i \in 1..Len(frames) : frames[i].N = 100}

\* The cumulative angle of the running turn_by has reached its target
TargetReached == pc = "turn_by" /\ Abs(turn.alpha2) >= 2 * turn.angle

\* C27: in every turn_by call whose loop exits, a stop frame is sent after
\* the loop and is the last frame the call sends, and no MPU request is
\* issued once the cumulative angle has reached the target.
C27_StopFrameEndsTurn ==
    /\ [](Turned =>
            /\ last.sent # <<>>
            /\ last.sent[Len(last.sent)] = stop_cmd
            /\ StopFrames(last.sent) = {Len(last.sent)}
            /\ \A i \in MpuRequests(last.sent) : i < Len(last.sent))
    /\ [][TargetReached =>
            /\ MpuRequests(last'.sent) = MpuRequests(last.sent)
            /\ Turned'
            /\ Len(last'.sent) = Len(last.sent) + 1]_vars

\* A turn that needed three loop reads and ended with its stop frame
C27_Witness ==
    /\ Turned
    /\ last.turn.reads = 4
    /\ Len(last.sent) = 6
    /\ last.sent[6] = stop_cmd

\* C28: when the loop of turn_by exits, |alpha| >= |target| and its value
\* before the last increment was below |target|, so the overshoot
\* |alpha| - |target| is at most the magnitude of the last increment (all
\* in doubled degrees; a target of 0 exits with no increment and alpha 0).
C28_OvershootWithinLastIncrement ==
    Turned =>
        LET alpha2 == last.turn.alpha2
            target2 == 2 * Abs(last.turn.target)
            incs == last.turn.incs
        IN  /\ Abs(alpha2) >= target2
            /\ alpha2 = SumSeq(incs)
            /\ IF incs = <<>> THEN alpha2 = 0 /\ target2 = 0
               ELSE /\ Abs(alpha2 - incs[Len(incs)]) < target2
                    /\ Abs(alpha2) - target2 <= Abs(incs[Len(incs)])

\* A turn that overshot its target of 30 degrees by 10 on its last sample
C28_Witness ==
    /\ Turned
    /\ last.turn.target = 30
    /\ Abs(last.turn.alpha2) = 80
    /\ Len(last.turn.incs) >= 2


\* C29: once turn_by is in its rotation loop it eventually returns to idle
\* with the stop frame, provided every MPU read returns a sample, whatever
\* the sampled rates are.
C29_RotationEnds == (pc = "turn_by") ~> (pc = "idle" /\ vehicle = T_stop)


\* The last public call is turn_by, running or returned
InTurnBy == last.op = "turn_by"

TurnTarget == IF pc = "turn_by" THEN turn.target ELSE last.turn.target

TurnFrames(frames) == {i \in 1..Len(frames) : frames[i].N = 102}

\* A non-zero angle sends one turn frame: left for a positive angle, right
\* for a negative one, at speed 50
SignedTurnFrame ==
    (InTurnBy /\ TurnTarget # 0) =>
        /\ Cardinality(TurnFrames(last.sent)) = 1
        /\ \A i \in TurnFrames(last.sent) :
              last.sent[i] =
                  IF TurnTarget > 0
                  THEN [H |-> T_l, N |-> 102, D1 |-> 3, D2 |-> 50]
                  ELSE [H |-> T_r, N |-> 102, D1 |-> 4, D2 |-> 50]

\* C30: turn_by(angle) sends a turn frame whose direction follows the sign
\* of angle (left, D1 = 3, for angle > 0; right, D1 = 4, for angle < 0) at
\* the fixed speed D2 = 50, and for angle = 0 it sends no turn frame.
C30_TurnFrameFollowsSign ==
    /\ SignedTurnFrame
    /\ (InTurnBy /\ TurnTarget = 0) => TurnFrames(last.sent) = {}


\* A flush whose command is being applied: __change_state_to has sent the
\* frame and waits for the confirmation, or the wait has timed out
Applying == last.op = "move" /\ last.awaited /\ pc = "recv"

TimedOutApplying ==
    last.op = "move" /\ last.awaited /\ last.outcome = "timeout"

AppliedFrame == [last.cmd EXCEPT !.H = DerivedLabel(last.cmd)]

\* C31: if awaiting the confirmation of a command that is being applied
\* raises Timeout, the frame has been sent, the movement label and the
\* tracked head angle are those from before the command, and the label
\* differs from the command's label, so the same command flushed again is
\* not suppressed; no step that enters, continues or times out the wait
\* changes the label or the head angle.
C31_TimeoutKeepsTrackedState ==
    /\ [](TimedOutApplying =>
              /\ last.sent = <<AppliedFrame>>
              /\ state = last.state0
              /\ state # DerivedLabel(last.cmd))
    /\ [][(Applying' \/ TimedOutApplying') =>
              (state' = state /\ head_angle' = head_angle)]_vars

\* A head-set to another angle than the tracked one has timed out in a flush
C31_Witness ==
    /\ TimedOutApplying
    /\ last.cmd.N = 5
    /\ last.cmd.D2 - 90 # head_angle
    /\ pc = "idle"


\* The step that follows an inner loop: the pivot test and num_trials += 1
AfterInnerLoop == pc = "homing" /\ homing.at = "pivot"

PivotCondition ==
    Abs(homing.angle) > 10 \/ homing.dist[1] < 30 * 10000

Pivoted ==
    /\ homing'.pivots = homing.pivots + 1
    /\ homing'.turn_by_calls = homing.turn_by_calls + 1

NotPivoted ==
    /\ homing'.pivots = homing.pivots
    /\ homing'.turn_by_calls = homing.turn_by_calls

\* C32: after each inner loop of turn_to_best_direction the 90-degree pivot
\* is executed if and only if the last measured angle has |angle| > 10 or
\* the last best distance is below 30 cm; every angle obtained from a rescan
\* inside the loop lies in [-30, 30].
C32_PivotIffStalledOrClose ==
    /\ []((InHoming /\ Homing.rescans > 0) => Homing.angle \in -30..30)
    /\ [][AfterInnerLoop =>
              /\ homing'.at = "outer"
              /\ homing'.angle = homing.angle
              /\ IF PivotCondition THEN Pivoted ELSE NotPivoted]_vars

\* A pivot has been made for the distance alone
C32_Witness ==
    /\ pc = "homing"
    /\ homing.at = "outer"
    /\ homing.pivots = 1
    /\ homing.num_trials = 1
    /\ Abs(homing.angle) <= 10
    /\ homing.dist[1] < 30 * 10000

\* The controller has returned on a converged angle without a pivot since
\* the scan that measured it
ConvergedWithoutPivot ==
    Homed /\ Abs(last.homing.angle) <= 10 /\ last.homing.fresh

\* C33: whenever turn_to_best_direction returns with |angle| <= 10, no
\* 90-degree pivot has been executed after the scan that produced the angle.
C33_NoPivotAfterFinalScan ==
    (Homed /\ Abs(last.homing.angle) <= 10) => last.homing.fresh


DistanceRequests(frames) == {i \in 1..Len(frames) : frames[i].N = 21}

\* C34: a successful find_best_front_direction sends, as its last frame, a
\* head-set for angle 0 (wire angle 90), after its last distance request;
\* the scan returns on the step that sends it.
C34_ScanEndsWithHeadReset ==
    /\ [](Scanned =>
              LET frames == last.sent
                  n == Len(frames)
              IN  /\ n >= 3
                  /\ frames[n] = HeadFrame(0)
                  /\ frames[n - 1].N = 21
                  /\ \A i \in DistanceRequests(frames) : i < n)
    /\ [][(pc = "scan" /\ pc' = "idle" /\ last'.outcome = "ok") =>
              /\ last'.sent = Append(last.sent, HeadFrame(0))
              /\ Len(scan.distances) = Len(scan.scan_angles)]_vars

\* A scan of several angles, one read of which was retried, has returned
C34_Witness ==
    /\ Scanned
    /\ Len(last.scan.scan_angles) >= 2
    /\ Cardinality(DistanceRequests(last.sent)) > Len(last.scan.scan_angles)
    /\ \E i \in 1..Len(last.sent) :
          last.sent[i].N = 5 /\ last.sent[i].D2 # 90


AtRead == pc = "scan" /\ scan.at = "read"

\* A step of the read loop that is not a returned read
Retried == AtRead /\ scan' # scan /\ (scan'.running => scan'.i = scan.i)

ScanReturns == (pc = "scan") ~> (pc = "idle" /\ last.outcome = "ok")

\* C35: with every head-set confirmed and, at each angle, a distance read
\* that succeeds in the end, find_best_front_direction returns; a read that
\* times out can always be followed by another one that times out, and it
\* leaves the scan running at the same angle, neither returned nor raised.
C35_ScanReturnsIfReadsSucceed ==
    /\ ScanReturns
    /\ [](AtRead => ENABLED scan_loop_retry)
    /\ [][Retried => /\ pc' = "scan"
                     /\ scan'.running
                     /\ scan'.at = "read"
                     /\ scan'.i = scan.i
                     /\ last'.outcome = "running"]_vars

\* A scan has returned after an odd number of timed-out reads at its last
\* angle
C35_Witness ==
    /\ pc = "idle"
    /\ last.op = "find_best_front_direction"
    /\ last.outcome = "ok"
    /\ last.scan.parity = 1
    /\ Len(last.scan.scan_angles) = 17


\* Requests the vehicle has received and not answered
Outstanding == Len(pending)

OneInFlight == Outstanding <= 1

\* Between calls the buffer holds no reply
NoStaleReply == pc = "idle" => recv_msg_queue = <<>>

\* C36: the controller never has two reply-requiring requests outstanding
\* at once, and no reply to an abandoned request stays unconsumed in the
\* buffer.
C36_OneRequestInFlight == OneInFlight /\ NoStaleReply


\* The step is a command issued with lazy=True
IssuedLazy == last'.seq # last.seq /\ last'.lazy

\* C37: a movement or head command issued with lazy=True only appends its
\* command to the lazy queue: no frame is sent, nothing is awaited or read,
\* and the movement label and the tracked head angle are unchanged; they
\* change only in a step of move().
C37_LazyOnlyEnqueues ==
    /\ [][IssuedLazy =>
              /\ cmd_queue' = Append(cmd_queue, last'.cmd)
              /\ last'.sent = <<>>
              /\ ~last'.awaited
              /\ ~last'.read
              /\ pc' = "idle"
              /\ UNCHANGED <<state, head_angle, vehicle, recv_msg_queue,
                             net, pending>>]_vars
    /\ [][(state' # state \/ head_angle' # head_angle) =>
              last'.op = "move"]_vars

\* A head command and a movement command are queued, nothing has been sent
C37_Witness ==
    /\ last.lazy
    /\ last.op = "forward"
    /\ Len(cmd_queue) = 2
    /\ cmd_queue[1].N = 5
    /\ cmd_queue[1].D2 - 90 # head_angle
    /\ DerivedLabel(cmd_queue[2]) # state
    /\ vehicle = <<>>


\* The reply to caller c's request
Reply(c) == ConfirmationPattern(clear_all_states_cmd(c).H)

Holds(text, c) == Search(Reply(c), text) # 0

\* Caller c is inside the receive loop
Awaits(c) == thread(c).at \in {"load", "recv", "store", "strip", "search"}

\* The request is unanswered or its reply has not been read yet
InTransit(c) ==
    \/ \E i \in 1..Len(pending) : pending[i] = clear_all_states_cmd(c)
    \/ Holds(Flatten(net), c)

\* Some caller's next store puts the reply into the buffer
WillBeStored(c) ==
    \E d \in Callers :
        \/ thread(d).at = "recv" /\ Holds(thread(d).tmp, c)
        \/ thread(d).at = "store"
           /\ Holds(thread(d).tmp \o thread(d).chunk, c)

\* The chunk with c's reply was received and is lost from the buffer
ChunkLost(c) ==
    /\ Awaits(c)
    /\ ~InTransit(c)
    /\ ~Holds(recv_msg_queue, c)
    /\ ~WillBeStored(c)

\* c is blocked in socket.recv although its reply is in the buffer
WaitsAlthoughReceived(c) ==
    thread(c).at = "recv" /\ Holds(recv_msg_queue, c)

\* C38: with the accesses serialized one operation at a time, no caller's
\* chunk is lost from the shared buffer and no caller waits in socket.recv
\* while its reply is in the buffer; without serialization both happen (the
\* witness and StuckAlthoughReceived).
C38_SerializedCallsAreSafe ==
    threads.mutex =>
        \A c \in Callers : ~ChunkLost(c) /\ ~WaitsAlthoughReceived(c)

\* Without the mutex: a received reply is gone from the buffer for good
C38_Witness == ~threads.mutex /\ \E c \in Callers : ChunkLost(c)

\* Without the mutex: a caller is blocked with nothing more to arrive,
\* although its reply is in the buffer
StuckAlthoughReceived ==
    /\ ~threads.mutex
    /\ net = <<>>
    /\ pending = <<>>
    /\ \E c \in Callers :
          /\ WaitsAlthoughReceived(c)
          /\ \A d \in Callers \ {c} : thread(d).at \in {"idle", "recv"}


\* The maximum is reached at exactly two adjacent positions
AdjacentTie(d) ==
    Cardinality(Tied(d)) = 2 /\ Max(Tied(d)) = Min(Tied(d)) + 1

\* 0 when the lower position of the tie is selected, 1 when the higher
Side(d) == ind_best_dir(d) - Min(Tied(d))

\* C39: for two adjacent scan positions i and i+1 tied for the maximum, the
\* selected position is on the same side as for the positions 0 and 1,
\* whatever i is.
C39_TieBreakIgnoresParity ==
    (Scanned /\ AdjacentTie(last.scan.distances)) =>
        /\ last.result.ind = ind_best_dir(last.scan.distances)
        /\ Side(last.scan.distances) = Side(<<1, 1>>)

\* For a tie at an even position the lower one is selected
EvenTiePicksLower ==
    (Scanned /\ AdjacentTie(last.scan.distances)
             /\ Min(Tied(last.scan.distances)) % 2 = 0) =>
        Side(last.scan.distances) = 0

\* For a tie at an odd position the higher one is selected
OddTiePicksHigher ==
    (Scanned /\ AdjacentTie(last.scan.distances)
             /\ Min(Tied(last.scan.distances)) % 2 = 1) =>
        Side(last.scan.distances) = 1

OddTieScanned ==
    /\ Scanned
    /\ AdjacentTie(last.scan.distances)
    /\ Min(Tied(last.scan.distances)) % 2 = 1

====
